---- MODULE Spec2Model ----
(***************************************************************************)
(* Model of the daily-brief generation endpoints (src/unnamed/part_002,    *)
(* src/api/generate.js, ...) and of their pure helpers.                    *)
(*                                                                         *)
(* Strings are modelled exactly over a small alphabet, run-length encoded: *)
(* a string is a sequence of runs [c |-> class, n |-> count] in which no   *)
(* run is empty and neighbouring runs have different classes.  The classes *)
(* are "w" (a whitespace character), "p" (a non-whitespace character of    *)
(* provider/request text), "l" (a non-whitespace character of a string     *)
(* literal of the source) and "d" (a character of a date).                 *)
(***************************************************************************)
EXTENDS Integers, Sequences, FiniteSets, TLC

VARIABLES env, h, fx

vars == <<env, h, fx>>

-----------------------------------------------------------------------------
(* Strings *)

Min(a, b) == IF a <= b THEN a ELSE b

Run(c, n) == IF n = 0 THEN <<>> ELSE <<[c |-> c, n |-> n]>>

\* s + t
Concat(s, t) ==
  IF s = <<>> THEN t
  ELSE IF t = <<>> THEN s
  ELSE IF s[Len(s)].c = t[1].c
       THEN SubSeq(s, 1, Len(s) - 1)
              \o <<[c |-> t[1].c, n |-> s[Len(s)].n + t[1].n]>>
              \o Tail(t)
       ELSE s \o t

RECURSIVE StrLen(_)
\* s.length
StrLen(s) == IF s = <<>> THEN 0 ELSE s[1].n + StrLen(Tail(s))

\* s.trim()
Trim(s) ==
  LET a == IF s # <<>> /\ s[1].c = "w" THEN Tail(s) ELSE s
  IN  IF a # <<>> /\ a[Len(a)].c = "w" THEN SubSeq(a, 1, Len(a) - 1) ELSE a

RECURSIVE Slice(_, _)
\* s.slice(0, n)
Slice(s, n) ==
  IF s = <<>> \/ n = 0 THEN <<>>
  ELSE IF s[1].n >= n THEN <<[c |-> s[1].c, n |-> n]>>
  ELSE <<s[1]>> \o Slice(Tail(s), n - s[1].n)

RECURSIVE Words(_)
\* A string literal of the source: words of the given lengths, separated by
\* single whitespace characters (a length 0 stands for the empty word at an
\* end of the literal).
Words(ls) ==
  IF ls = <<>> THEN <<>>
  ELSE IF Len(ls) = 1 THEN Run("l", ls[1])
  ELSE Concat(Run("l", ls[1]), Concat(Run("w", 1), Words(Tail(ls))))

\* Provider text of n non-whitespace characters
P(n) == Run("p", n)

\* s with one whitespace character on each side
Padded(s) == Concat(Run("w", 1), Concat(s, Run("w", 1)))

-----------------------------------------------------------------------------
(* JavaScript values as they come out of JSON.parse *)

\* undefined or null (a missing property reads as undefined)
Undef == [t |-> "undef", s |-> <<>>]
\* a value that is neither nullish nor a string, such as the number 5
Num == [t |-> "num", s |-> <<>>]
Str(s) == [t |-> "str", s |-> s]

\* v ?? d
Coalesce(v, d) == IF v.t = "undef" THEN d ELSE v

\* String(v) for a non-nullish v: String(5) is "5"
JsString(v) == IF v.t = "str" THEN v.s ELSE P(1)

\* JavaScript truthiness of a value
Truthy(v) == v.t = "num" \/ (v.t = "str" /\ v.s # <<>>)

-----------------------------------------------------------------------------
(* coerceOutput of src/unnamed/part_002: validator and defaults *)

MinTitle == 10
MinIntroduction == 60
MinKeyFindings == 100
MinConclusion == 50
MinConcepts == 3
MinDefinition == 60
MaxConcepts == 4
MaxTerm == 160
MaxDefinition == 1000

DefaultSource == Words(<<9, 10, 10>>)
\* the default title as it would be without the date
DefaultTitleNoDate(dateText) == Words(<<5, 5>>)

DefaultTitle(dateText) == Concat(Words(<<5, 5, 1, 0>>), dateText)
DefaultIntroduction == Words(<<4, 5, 10, 1, 9, 4, 3, 9, 9, 3, 12, 2, 5, 5>>)
DefaultKeyFindings ==
  Words(<<1, 6, 7, 8, 10, 1, 8, 10, 7, 11, 1, 8, 9, 4, 8, 15>>)
DefaultConclusion == Words(<<4, 3, 5, 6, 3, 2, 2, 6, 11, 5, 10>>)
DefaultConcepts ==
  << [term |-> Words(<<12>>),
      definition |-> Words(<<1, 7, 6, 11, 5, 5, 8, 11, 5, 7, 6, 7, 9>>)],
     [term |-> Words(<<13>>),
      definition |-> Words(<<9, 2, 8, 4, 7, 8, 10, 8, 4, 5, 8, 9, 3, 8>>)],
     [term |-> Words(<<9, 4>>),
      definition |-> Words(<<3, 4, 7, 6, 2, 2, 4, 8, 2, 8, 7, 3, 15>>)] >>

ResearchFields == {"title", "introduction", "keyFindings", "conclusion", "source"}

\* The candidate {} (also what any non-object candidate behaves as)
EmptyObject == [t |-> "obj", research |-> [t |-> "undef"],
                concepts |-> [t |-> "undef", items |-> <<>>]]

\* ai?.research?.[f]
ResearchField(ai, f) ==
  IF ai.t = "obj" /\ ai.research.t = "obj" THEN ai.research[f] ELSE Undef

\* c?.[f] for an element c of ai.concepts
EntryField(c, f) == IF c.t = "obj" THEN c[f] ELSE Undef

\* the operand of .trim() in lines 21-25
TrimOperand(ai, f) ==
  Coalesce(ResearchField(ai, f),
           IF f = "source" THEN Str(DefaultSource) ELSE Str(<<>>))

\* CoerceFields as it would be without the slice(0,4) of line 27
CoerceFieldsKeepAll(ai) ==
  [research |-> [f \in ResearchFields |-> Trim(TrimOperand(ai, f).s)],
   concepts |->
     IF ai.t = "obj" /\ ai.concepts.t = "arr"
     THEN [i \in 1..Len(ai.concepts.items) |->
            [term |-> Slice(Trim(JsString(Coalesce(
                         EntryField(ai.concepts.items[i], "term"), Str(<<>>)))),
                            MaxTerm),
             definition |-> Slice(Trim(JsString(Coalesce(
                         EntryField(ai.concepts.items[i], "definition"), Str(<<>>)))),
                            MaxDefinition)]]
     ELSE <<>>]

\* lines 19-31: the object `out` before validation
CoerceFields(ai) ==
  [research |-> [f \in ResearchFields |-> Trim(TrimOperand(ai, f).s)],
   concepts |->
     IF ai.t = "obj" /\ ai.concepts.t = "arr"
     THEN [i \in 1..Min(Len(ai.concepts.items), MaxConcepts) |->
            [term |-> Slice(Trim(JsString(Coalesce(
                         EntryField(ai.concepts.items[i], "term"), Str(<<>>)))),
                            MaxTerm),
             definition |-> Slice(Trim(JsString(Coalesce(
                         EntryField(ai.concepts.items[i], "definition"), Str(<<>>)))),
                            MaxDefinition)]]
     ELSE <<>>]

\* lines 34-40: the validity predicate on `out`
Valid(out) ==
  /\ StrLen(out.research.title) >= MinTitle
  /\ StrLen(out.research.introduction) >= MinIntroduction
  /\ StrLen(out.research.keyFindings) >= MinKeyFindings
  /\ StrLen(out.research.conclusion) >= MinConclusion
  /\ Len(out.concepts) >= MinConcepts
  /\ \A i \in 1..Len(out.concepts) :
        /\ out.concepts[i].term # <<>>
        /\ StrLen(out.concepts[i].definition) >= MinDefinition

\* FillDefaults as it would be if every under-threshold field were replaced
FillDefaultsUnderThreshold(out, dateText) ==
  [research |->
     [title        |-> IF StrLen(out.research.title) < MinTitle
                       THEN DefaultTitle(dateText) ELSE out.research.title,
      introduction |-> IF StrLen(out.research.introduction) < MinIntroduction
                       THEN DefaultIntroduction ELSE out.research.introduction,
      keyFindings  |-> IF StrLen(out.research.keyFindings) < MinKeyFindings
                       THEN DefaultKeyFindings ELSE out.research.keyFindings,
      conclusion   |-> IF StrLen(out.research.conclusion) < MinConclusion
                       THEN DefaultConclusion ELSE out.research.conclusion,
      source       |-> out.research.source],
   concepts |-> IF Len(out.concepts) < MinConcepts
                THEN DefaultConcepts ELSE out.concepts]

\* lines 43-58: defaults for an `out` that failed validation
FillDefaults(out, dateText) ==
  [research |->
     [title        |-> IF out.research.title = <<>>
                       THEN DefaultTitle(dateText) ELSE out.research.title,
      introduction |-> IF out.research.introduction = <<>>
                       THEN DefaultIntroduction ELSE out.research.introduction,
      keyFindings  |-> IF out.research.keyFindings = <<>>
                       THEN DefaultKeyFindings ELSE out.research.keyFindings,
      conclusion   |-> IF out.research.conclusion = <<>>
                       THEN DefaultConclusion ELSE out.research.conclusion,
      source       |-> out.research.source],
   concepts |-> IF Len(out.concepts) < MinConcepts
                THEN DefaultConcepts ELSE out.concepts]

NoOut == [research |-> [f \in ResearchFields |-> <<>>], concepts |-> <<>>]

\* coerceOutput as it would be if ok were judged again after the defaults
coerceOutputRejudged(ai, date) ==
  IF \E f \in ResearchFields : TrimOperand(ai, f).t # "str"
  THEN [threw |-> TRUE, out |-> NoOut, ok |-> FALSE]
  ELSE LET out == CoerceFields(ai)
           res == IF Valid(out) THEN out ELSE FillDefaults(out, JsString(date))
       IN  [threw |-> FALSE, out |-> res, ok |-> Valid(res)]

\* coerceOutput(ai, date): threw is TRUE when a .trim() of lines 21-25 is
\* applied to a value that is not a string (a TypeError); otherwise out and
\* ok are the returned pair.
coerceOutput(ai, date) ==
  IF \E f \in ResearchFields : TrimOperand(ai, f).t # "str"
  THEN [threw |-> TRUE, out |-> NoOut, ok |-> FALSE]
  ELSE LET out == CoerceFields(ai)
           ok  == Valid(out)
       IN  [threw |-> FALSE,
            out   |-> IF ok THEN out ELSE FillDefaults(out, JsString(date)),
            ok    |-> ok]

\* The candidate that JSON.parse(JSON.stringify(out)) gives
AsCandidate(out) ==
  [t |-> "obj",
   research |-> [t |-> "obj",
                 title        |-> Str(out.research.title),
                 introduction |-> Str(out.research.introduction),
                 keyFindings  |-> Str(out.research.keyFindings),
                 conclusion   |-> Str(out.research.conclusion),
                 source       |-> Str(out.research.source)],
   concepts |-> [t |-> "arr",
                 items |-> [i \in 1..Len(out.concepts) |->
                             [t |-> "obj",
                              term |-> Str(out.concepts[i].term),
                              definition |-> Str(out.concepts[i].definition)]]]]

-----------------------------------------------------------------------------
(* Inputs of coerceOutput *)

\* Longest concept list the provider returns in the model
MaxItems == 5

DateLen == 10
\* new Date().toISOString().slice(0,10), or a "YYYY-MM-DD" of the request
IsoDate == Str(Run("d", DateLen))
\* the values `date` takes: a date string, a date string with a trailing
\* blank (any truthy body.date is used as it is), a number
Dates == {IsoDate, Str(Concat(Run("d", DateLen), Run("w", 1))), Num}

MinOf(f) ==
  CASE f = "title" -> MinTitle
    [] f = "introduction" -> MinIntroduction
    [] f = "keyFindings" -> MinKeyFindings
    [] f = "conclusion" -> MinConclusion
    [] OTHER -> 1

\* Values of a research field f in a provider reply
FieldVals(f) ==
  {Undef, Num, Str(<<>>), Str(Run("w", 2)),
   Str(P(MinOf(f))), Str(Padded(P(MinOf(f)))), Str(P(MaxTerm + 1))}
  \cup (IF MinOf(f) > 1 THEN {Str(P(MinOf(f) - 1)), Str(Padded(P(MinOf(f) - 1)))}
        ELSE {})

GoodResearch ==
  [t |-> "obj", title |-> Str(P(MinTitle)),
   introduction |-> Str(P(MinIntroduction)),
   keyFindings |-> Str(P(MinKeyFindings)),
   conclusion |-> Str(P(MinConclusion)), source |-> Str(P(MinTitle))]
BlankResearch ==
  [t |-> "obj", title |-> Undef, introduction |-> Undef,
   keyFindings |-> Undef, conclusion |-> Undef, source |-> Undef]

ResearchVals ==
  {[t |-> "undef"]} \cup
  UNION {{[b EXCEPT ![f] = v] : b \in {GoodResearch, BlankResearch},
                                 v \in FieldVals(f)} : f \in ResearchFields}

Entry(term, definition) ==
  [t |-> "obj", term |-> term, definition |-> definition]
GoodEntry == Entry(Str(P(5)), Str(P(MinDefinition)))
ThinEntry == Entry(Str(P(5)), Str(P(MinDefinition - 1)))
\* entries with an empty or missing part, a non-string part, a null element,
\* and parts longer than the truncation limits (with a blank at the cut)
OddEntries ==
  {Entry(Str(P(5)), Str(<<>>)), Entry(Str(P(5)), Undef),
   Entry(Str(<<>>), Str(P(MinDefinition))),
   Entry(Num, Str(Padded(P(MinDefinition)))),
   [t |-> "undef"],
   Entry(Str(P(MaxTerm + 1)), Str(P(MaxDefinition + 1))),
   Entry(Str(P(5)),
         Str(Concat(P(MaxDefinition - 1), Concat(Run("w", 1), P(5))))),
   Entry(Str(Concat(P(MaxTerm - 1), Concat(Run("w", 1), P(5)))),
         Str(P(MinDefinition)))}

Array(items) == [t |-> "arr", items |-> items]
ConceptVals ==
  {[t |-> "undef", items |-> <<>>]} \cup
  {Array(items) : items \in UNION {[1..k -> {GoodEntry, ThinEntry}] : k \in 0..MaxItems}}
  \cup {Array(<<e, GoodEntry, GoodEntry>>) : e \in OddEntries}
  \cup {Array(<<GoodEntry, e>>) : e \in OddEntries}

Candidates ==
  {[t |-> "null"]} \cup
  {[t |-> "obj", research |-> r, concepts |-> c] :
     r \in ResearchVals, c \in ConceptVals}

-----------------------------------------------------------------------------
(* The handlers' state when no request is being served *)

NoEnv == [n \in {} |-> Undef]
NoRequests == [r \in {} |-> Undef]
NoFx == [stage |-> "off"]

-----------------------------------------------------------------------------
(* SpecCoerce: coerceOutput applied to a candidate, then to its own output *)

InitCoerce ==
  /\ env = NoEnv
  /\ h = NoRequests
  /\ fx \in {[stage |-> "new", x |-> x, d |-> d] : x \in Candidates, d \in Dates}

ApplyCoerce ==
  /\ fx.stage = "new"
  /\ fx' = [stage |-> "once", x |-> fx.x, d |-> fx.d,
            r1 |-> coerceOutput(fx.x, fx.d)]
  /\ UNCHANGED <<env, h>>

ApplyCoerceAgain ==
  /\ fx.stage = "once"
  /\ ~fx.r1.threw
  /\ fx' = [stage |-> "twice", x |-> fx.x, d |-> fx.d, r1 |-> fx.r1,
            r2 |-> coerceOutput(AsCandidate(fx.r1.out), fx.d)]
  /\ UNCHANGED <<env, h>>

NextCoerce == ApplyCoerce \/ ApplyCoerceAgain

SpecCoerce == InitCoerce /\ [][NextCoerce]_vars

\* C9: coerceOutput is idempotent on its own output: coercing the output of
\* coerceOutput(x, d) again, with the same date, gives the same research
\* fields and the same concept list.
C9_Idempotent ==
  fx.stage = "twice" => (~fx.r2.threw /\ fx.r2.out = fx.r1.out)

ThresholdFields == {"title", "introduction", "keyFindings", "conclusion"}

\* the trimmed text of research field f of the candidate x ('' when missing)
InputText(x, f) ==
  IF x.t = "obj" /\ x.research.t = "obj" /\ x.research[f].t = "str"
  THEN Trim(x.research[f].s) ELSE <<>>

\* number of entries of the candidate's concept list (0 when not an array)
InputCount(x) ==
  IF x.t = "obj" /\ x.concepts.t = "arr" THEN Len(x.concepts.items) ELSE 0

DefaultOf(f, d) ==
  CASE f = "title" -> DefaultTitle(JsString(d))
    [] f = "introduction" -> DefaultIntroduction
    [] f = "keyFindings" -> DefaultKeyFindings
    [] f = "conclusion" -> DefaultConclusion

Judged == fx.stage \in {"once", "twice"} /\ ~fx.r1.threw

C11_NeverThrows ==
  fx.stage \in {"once", "twice"} => ~fx.r1.threw

\* the term or definition of entry i of the candidate's list as line 28 or 29
\* leaves it: String(c?.[f] ?? '').trim().slice(0, cap)
EntryText(x, i, f) ==
  LET c == x.concepts.items[i]
      v == IF c.t = "obj" /\ c[f].t # "undef" THEN c[f] ELSE Str(<<>>)
  IN  Slice(Trim(JsString(v)), IF f = "term" THEN 160 ELSE 1000)

\* the validity judgment read off the candidate itself
ExpectedOk(x) ==
  /\ StrLen(InputText(x, "title")) >= 10
  /\ StrLen(InputText(x, "introduction")) >= 60
  /\ StrLen(InputText(x, "keyFindings")) >= 100
  /\ StrLen(InputText(x, "conclusion")) >= 50
  /\ InputCount(x) >= 3
  /\ \A i \in 1..Min(InputCount(x), 4) :
       /\ EntryText(x, i, "term") # <<>>
       /\ StrLen(EntryText(x, i, "definition")) >= 60

\* C12: the ok flag coerceOutput returns is the validity predicate on the
\* trimmed and truncated candidate, judged before any default is put in:
\* title >= 10, introduction >= 60, keyFindings >= 100, conclusion >= 50
\* characters, at least 3 concepts, each (of the first 4) with a non-empty
\* term and a definition of at least 60 characters; the defaults never turn
\* ok from false into true.
C12_OkIsValidity ==
  Judged => (fx.r1.ok <=> ExpectedOk(fx.x))

\* A candidate judged invalid whose output, once the defaults are in, would
\* pass the validity predicate: ok is still false
C12_Witness ==
  /\ Judged /\ ~fx.r1.ok
  /\ Valid(fx.r1.out)
  /\ fx.r1.out.research.introduction = DefaultIntroduction

\* C13: every string of coerceOutput's result is trimmed and bounded: the
\* title has at most 160 characters and each definition at most 1000,
\* whatever the provider sent.
C13_TrimmedAndBounded ==
  Judged =>
    /\ \A f \in ResearchFields :
         Trim(fx.r1.out.research[f]) = fx.r1.out.research[f]
    /\ StrLen(fx.r1.out.research.title) <= 160
    /\ \A i \in 1..Len(fx.r1.out.concepts) :
         /\ Trim(fx.r1.out.concepts[i].term) = fx.r1.out.concepts[i].term
         /\ Trim(fx.r1.out.concepts[i].definition) =
              fx.r1.out.concepts[i].definition
         /\ StrLen(fx.r1.out.concepts[i].definition) <= 1000

-----------------------------------------------------------------------------
(* Environment configuration and request bodies *)

EnvNames == <<"GOOGLE_API_KEY", "GEMINI_API_KEY", "GOOGLE_GENAI_API_KEY",
              "GOOGLE_GENERATIVE_AI_API_KEY">>

MinKeyLen == 10
\* Most environment variables set at once in the model
MaxKeysSet == 2

\* A variable is unset, set to the empty string, to a 9-character value or
\* to a plausible key
EnvVals == {Undef, Str(<<>>), Str(P(MinKeyLen - 1)), Str(P(MinKeyLen))}
Envs ==
  {e \in [{EnvNames[i] : i \in 1..Len(EnvNames)} -> EnvVals] :
     Cardinality({n \in DOMAIN e : e[n] # Undef}) <= MaxKeysSet}

\* a || b || c || d over the four variables (lines 182-186)
ApiKeyOf(e) ==
  LET set == {i \in 1..Len(EnvNames) : Truthy(e[EnvNames[i]])}
  IN  IF set = {} THEN e[EnvNames[Len(EnvNames)]]
      ELSE e[EnvNames[CHOOSE i \in set : \A j \in set : i <= j]]

\* the key name as it would be if a variable set to the empty string counted
KeyNameOfFirstSet(e) ==
  LET set == {i \in 1..Len(EnvNames) : e[EnvNames[i]] # Undef}
  IN  IF set = {} THEN "null"
      ELSE EnvNames[CHOOSE i \in set : \A j \in set : i <= j]

\* lines 188-193 ("null" stands for the value null)
KeyNameOf(e) ==
  LET set == {i \in 1..Len(EnvNames) : Truthy(e[EnvNames[i]])}
  IN  IF set = {} THEN "null"
      ELSE EnvNames[CHOOSE i \in set : \A j \in set : i <= j]

\* the key check as it would be without the length test
NoKeyAtAll(apiKey) == ~Truthy(apiKey)

\* !apiKey || apiKey.length < 10
NoUsableKey(apiKey) == ~Truthy(apiKey) \/ StrLen(apiKey.s) < MinKeyLen

UserIdPreviewLen == 16

\* What the request stream delivers: nothing, text that is not JSON, or
\* the text of a JSON value
BodyObj(date, userId) ==
  [t |-> "obj", date |-> date, userId |-> userId, raw |-> FALSE]
\* The stream emits 'end' (line 9): a stream that emits an error, is closed or
\* was already consumed never does, and the promise of readJsonBody then
\* stays pending
StreamEnds(stream) == stream.kind # "never"

Streams ==
  {[kind |-> "empty"], [kind |-> "malformed"], [kind |-> "never"]} \cup
  {[kind |-> "json", value |-> v] :
     v \in {[t |-> "null"], [t |-> "num"]} \cup
           {BodyObj(d, Undef) : d \in Dates \cup {Undef, Str(<<>>)}} \cup
           {BodyObj(IsoDate, Str(P(UserIdPreviewLen + 4)))}}

\* readJsonBody as it would be if it resolved to {} whatever the data
readJsonBodyIgnoringData(data) == BodyObj(Undef, Undef)

\* readJsonBody once the stream has ended (lines 9-12): {} for no data,
\* {_raw: data} for data that is not JSON, the parsed value otherwise
readJsonBody(data) ==
  CASE data.kind = "empty" -> BodyObj(Undef, Undef)
    [] data.kind = "malformed" -> [BodyObj(Undef, Undef) EXCEPT !.raw = TRUE]
    [] OTHER -> data.value

\* (body && body.date) || new Date().toISOString().slice(0,10)
DateOf(body) ==
  IF body.t = "obj" /\ Truthy(body.date) THEN body.date ELSE IsoDate

\* (body && body.userId) || 'anon'
UserIdOf(body) ==
  IF body.t = "obj" /\ Truthy(body.userId) THEN body.userId ELSE Str(Words(<<4>>))


-----------------------------------------------------------------------------
(* The provider's model listing and model selection (part_002, 225-254) *)

\* A model name is a sequence of tokens, e.g. "models/gemini-1.5-flash" is
\* <<"models/", "gemini-", "1.5", "-", "flash">>
Name(toks) == [t |-> "str", toks |-> toks]
NoName == [t |-> "undef", toks |-> <<>>]
NumName == [t |-> "num", toks |-> <<>>]

\* /gemini-((2(\.5)?)|1\.5)-(flash|pro)/.test(name || '')
Preferred(name) ==
  /\ name.t = "str"
  /\ \E i \in 1..Len(name.toks) :
       /\ i + 3 <= Len(name.toks)
       /\ name.toks[i] = "gemini-"
       /\ name.toks[i + 1] \in {"2", "2.5", "1.5"}
       /\ name.toks[i + 2] = "-"
       /\ name.toks[i + 3] \in {"flash", "pro"}

\* A listed model: its name and the values of supportedGenerationMethods
\* and supportedMethods, each a set of method names when it is an array,
\* "undef" when missing and "other" when it is any other truthy value
Methods(set) == [t |-> "arr", has |-> set]
NoMethods == [t |-> "undef", has |-> {}]
OtherMethods == [t |-> "other", has |-> {}]
Model(name, sgm, sm) == [name |-> name, sgm |-> sgm, sm |-> sm]

\* supports(m), lines 235-238; an empty array is truthy
supports(m) ==
  LET methods == IF m.sgm.t # "undef" THEN m.sgm
                 ELSE IF m.sm.t # "undef" THEN m.sm ELSE Methods({})
  IN  methods.t = "arr" /\ "generateContent" \in methods.has

PreferredAndSupported(m) == Preferred(m.name) /\ supports(m)

TruthyName(n) == n.t = "num" \/ (n.t = "str" /\ n.toks # <<>>)

\* prefer[0]?.name || general[0]?.name || ''
ChosenName(models) ==
  LET prefer  == SelectSeq(models, PreferredAndSupported)
      general == SelectSeq(models, supports)
  IN  IF prefer # <<>> /\ TruthyName(prefer[1].name) THEN prefer[1].name
      ELSE IF general # <<>> /\ TruthyName(general[1].name) THEN general[1].name
      ELSE Name(<<>>)

\* name.replace(/^models\//, '')
StripModelsPrefix(toks) ==
  IF toks # <<>> /\ toks[1] = "models/" THEN Tail(toks) ELSE toks

\* Replies to GET /v1/models: the fetch rejects, or answers with a status,
\* a body text of some length and, when the text is JSON, the parsed value
\* (its `models` array, or no array)
ListReject == [kind |-> "reject"]
ListHttp(status, len, parsable, hasArray, models) ==
  [kind |-> "http", status |-> status, text |-> P(len),
   parsable |-> parsable, hasArray |-> hasArray, models |-> models]

Flash15 == Name(<<"models/", "gemini-", "1.5", "-", "flash">>)
Pro25 == Name(<<"models/", "gemini-", "2.5", "-", "pro", "-latest">>)
Pro10 == Name(<<"models/", "gemini-", "1.0", "-", "pro">>)
Bison == Name(<<"text-bison">>)
Embedding == Name(<<"models/", "embedding-001">>)
Gen == Methods({"generateContent", "countTokens"})
Embed == Methods({"embedContent"})

ErrorSampleLen == 300
ListReplies ==
  {ListReject,
   ListHttp(500, 0, FALSE, FALSE, <<>>),
   ListHttp(403, ErrorSampleLen + 50, FALSE, FALSE, <<>>),
   ListHttp(200, 40, FALSE, FALSE, <<>>),
   ListHttp(200, 40, TRUE, FALSE, <<>>),
   ListHttp(200, 40, TRUE, TRUE, <<>>),
   ListHttp(200, 40, TRUE, TRUE, <<Model(Embedding, Embed, NoMethods)>>),
   ListHttp(200, 40, TRUE, TRUE,
            <<Model(Flash15, OtherMethods, Gen), Model(NoName, Gen, NoMethods)>>),
   ListHttp(200, 40, TRUE, TRUE, <<Model(NumName, NoMethods, Gen)>>),
   ListHttp(200, 40, TRUE, TRUE,
            <<Model(NoName, Gen, NoMethods), Model(Bison, Gen, NoMethods)>>),
   ListHttp(200, 40, TRUE, TRUE,
            <<Model(Embedding, Embed, NoMethods), Model(Bison, Gen, NoMethods),
              Model(Pro10, NoMethods, Gen)>>),
   ListHttp(200, 40, TRUE, TRUE,
            <<Model(Bison, Gen, NoMethods), Model(Flash15, Embed, Gen),
              Model(Pro25, Gen, NoMethods), Model(Flash15, Gen, NoMethods)>>)}

Ok2xx(status) == 200 <= status /\ status <= 299

\* An error value: String(e) is msg, followed by detail for the errors that
\* quote upstream text; _status, _body and _sample are the extra properties
\* set by geminiGenerate ("none" / empty when not set)
Error(msg, detail) ==
  [msg |-> msg, detail |-> detail, status |-> 0, body |-> <<>>,
   sample |-> <<>>]

\* lines 229-247: the model picked from a listing reply, or the error thrown
PickModel(reply) ==
  IF reply.kind = "reject"
    THEN [threw |-> TRUE, err |-> Error("TypeError: fetch failed", <<>>),
          model |-> <<>>]
  ELSE IF ~Ok2xx(reply.status)
    THEN [threw |-> TRUE,
          err |-> Error("Error: listModels", Slice(reply.text, ErrorSampleLen)),
          model |-> <<>>]
  ELSE IF ~reply.parsable
    THEN [threw |-> TRUE, err |-> Error("SyntaxError", <<>>), model |-> <<>>]
  ELSE LET models == IF reply.hasArray THEN reply.models ELSE <<>>
           chosen == ChosenName(models)
       IN  IF chosen.t = "num"
             THEN [threw |-> TRUE,
                   err |-> Error("TypeError: replace is not a function", <<>>),
                   model |-> <<>>]
           ELSE IF StripModelsPrefix(chosen.toks) = <<>>
             THEN [threw |-> TRUE,
                   err |-> Error("Error: No model with generateContent available to this key.", <<>>),
                   model |-> <<>>]
           ELSE [threw |-> FALSE, err |-> Error("", <<>>),
                 model |-> StripModelsPrefix(chosen.toks)]

-----------------------------------------------------------------------------
(* geminiGenerate of part_002 (110-171): call, envelope, inner JSON *)

BodyCap == 1200
SampleCap == 600

\* The text of a content part: missing, not a string, or a string that is
\* blank or not, has `len` characters once the fences are cleaned off, and
\* then parses (to `ai`) or does not
NoText == [t |-> "undef"]
NumText == [t |-> "num"]
BlankText == [t |-> "str", blank |-> TRUE, len |-> 0, json |-> FALSE,
              ai |-> [t |-> "null"]]
BadText(len) == [t |-> "str", blank |-> FALSE, len |-> len, json |-> FALSE,
                 ai |-> [t |-> "null"]]
JsonText(ai) == [t |-> "str", blank |-> FALSE, len |-> 400, json |-> TRUE,
                 ai |-> ai]

\* a text of white space only (BlankText is the empty string), and a part
\* without text whose inlineData.data is `data`
WhiteText == [t |-> "str", blank |-> TRUE, len |-> 0, json |-> FALSE,
              ai |-> [t |-> "null"], white |-> TRUE]
InlinePart(data) == [t |-> "undef", inline |-> data]

\* candidates[i].content.parts: an array of parts, missing, or a truthy
\* value that cannot be iterated
Parts(items) == [t |-> "arr", items |-> items]
NoParts == [t |-> "undef", items |-> <<>>]
NumParts == [t |-> "num", items |-> <<>>]

GenReject == [kind |-> "reject"]
\* a reply with a status and a body text `raw`; when raw is JSON, `candidates`
\* is the sequence of the parts values of the envelope's candidates
GenHttp(status, len, parsable, candidates) ==
  [kind |-> "http", status |-> status, raw |-> P(len), parsable |-> parsable,
   candidates |-> candidates]

\* wrapper?.candidates?.[0]?.content?.parts || []
FirstParts(reply) ==
  IF reply.candidates = <<>> \/ reply.candidates[1].t = "undef"
  THEN Parts(<<>>) ELSE reply.candidates[1]

\* typeof p?.text === 'string' && p.text.trim()
HasText(p) == p.t = "str" /\ ~p.blank

\* lines 144-148: the first part that has text
FirstText(parts) ==
  LET with == SelectSeq(parts.items, HasText)
  IN  IF with = <<>> THEN BlankText ELSE with[1]

\* geminiGenerate as it would be if the errors carried the whole upstream text
geminiGenerateWholeText(reply) ==
  IF reply.kind = "reject"
    THEN [threw |-> TRUE, err |-> Error("TypeError: fetch failed", <<>>),
          ai |-> [t |-> "null"]]
  ELSE IF ~Ok2xx(reply.status)
    THEN [threw |-> TRUE,
          err |-> [Error("Error: generateContent", <<>>) EXCEPT
                     !.status = reply.status, !.body = reply.raw],
          ai |-> [t |-> "null"]]
  ELSE IF ~reply.parsable
    THEN [threw |-> TRUE,
          err |-> [Error("Error: parse-wrapper", <<>>) EXCEPT
                     !.sample = reply.raw],
          ai |-> [t |-> "null"]]
  ELSE IF FirstParts(reply).t = "num"
    THEN [threw |-> TRUE,
          err |-> Error("TypeError: parts is not iterable", <<>>),
          ai |-> [t |-> "null"]]
  ELSE LET text == FirstText(FirstParts(reply))
       IN  IF text.blank
             THEN [threw |-> TRUE, err |-> Error("Error: no-text", <<>>),
                   ai |-> [t |-> "null"]]
           ELSE IF ~text.json
             THEN [threw |-> TRUE,
                   err |-> [Error("Error: parse-inner", <<>>) EXCEPT
                              !.sample = P(text.len)],
                   ai |-> [t |-> "null"]]
           ELSE [threw |-> FALSE, err |-> Error("", <<>>), ai |-> text.ai]

\* geminiGenerate once the call has resolved or rejected: the value returned
\* or the error thrown
geminiGenerate(reply) ==
  IF reply.kind = "reject"
    THEN [threw |-> TRUE, err |-> Error("TypeError: fetch failed", <<>>),
          ai |-> [t |-> "null"]]
  ELSE IF ~Ok2xx(reply.status)
    THEN [threw |-> TRUE,
          err |-> [Error("Error: generateContent", <<>>) EXCEPT
                     !.status = reply.status,
                     !.body = Slice(reply.raw, BodyCap)],
          ai |-> [t |-> "null"]]
  ELSE IF ~reply.parsable
    THEN [threw |-> TRUE,
          err |-> [Error("Error: parse-wrapper", <<>>) EXCEPT
                     !.sample = Slice(reply.raw, SampleCap)],
          ai |-> [t |-> "null"]]
  ELSE IF FirstParts(reply).t = "num"
    THEN [threw |-> TRUE,
          err |-> Error("TypeError: parts is not iterable", <<>>),
          ai |-> [t |-> "null"]]
  ELSE LET text == FirstText(FirstParts(reply))
       IN  IF text.blank
             THEN [threw |-> TRUE, err |-> Error("Error: no-text", <<>>),
                   ai |-> [t |-> "null"]]
           ELSE IF ~text.json
             THEN [threw |-> TRUE,
                   err |-> [Error("Error: parse-inner", <<>>) EXCEPT
                              !.sample = Slice(P(text.len), SampleCap)],
                   ai |-> [t |-> "null"]]
           ELSE [threw |-> FALSE, err |-> Error("", <<>>), ai |-> text.ai]

\* Candidates the provider sends in the handler model: valid with more than
\* 4 cards; valid with an empty source; nothing usable; 3 cards of which one
\* has an empty definition; a 9-character title; a title that is a number;
\* the JSON value null
ValidAi == [t |-> "obj", research |-> GoodResearch,
            concepts |-> Array([i \in 1..(MaxConcepts + 1) |-> GoodEntry])]
EmptySourceAi ==
  [t |-> "obj", research |-> [GoodResearch EXCEPT !.source = Str(<<>>)],
   concepts |-> Array(<<GoodEntry, GoodEntry, GoodEntry>>)]
BlankAi == [t |-> "obj", research |-> BlankResearch,
            concepts |-> [t |-> "undef", items |-> <<>>]]
EmptyDefinitionAi ==
  [t |-> "obj", research |-> GoodResearch,
   concepts |-> Array(<<GoodEntry, Entry(Str(P(5)), Str(<<>>)), GoodEntry>>)]
ShortTitleAi ==
  [t |-> "obj",
   research |-> [GoodResearch EXCEPT !.title = Str(P(MinTitle - 1))],
   concepts |-> Array(<<GoodEntry, GoodEntry, GoodEntry>>)]
NumTitleAi ==
  [t |-> "obj", research |-> [GoodResearch EXCEPT !.title = Num],
   concepts |-> Array(<<GoodEntry, GoodEntry, GoodEntry>>)]
\* valid content with five cards that differ from one another
OrderedAi ==
  [t |-> "obj", research |-> GoodResearch,
   concepts |-> Array([i \in 1..(MaxConcepts + 1) |->
                         Entry(Str(P(i)), Str(P(MinDefinition + i)))])]
ProviderAis ==
  {ValidAi, EmptySourceAi, BlankAi, EmptyDefinitionAi, ShortTitleAi,
   NumTitleAi, [t |-> "null"], OrderedAi}

GenReplies ==
  {GenReject,
   GenHttp(500, BodyCap + 800, FALSE, <<>>),
   GenHttp(200, SampleCap + 100, FALSE, <<>>),
   GenHttp(200, 50, TRUE, <<>>),
   GenHttp(200, 50, TRUE, <<NumParts>>),
   GenHttp(200, 50, TRUE, <<NoParts, Parts(<<JsonText(ValidAi)>>)>>),
   GenHttp(200, 50, TRUE, <<Parts(<<NoText, NumText, BlankText>>)>>),
   GenHttp(200, 50, TRUE, <<Parts(<<BlankText, BadText(SampleCap + 100)>>)>>),
   GenHttp(200, 50, TRUE, <<Parts(<<NoText, JsonText(ValidAi)>>)>>),
   GenHttp(200, 50, TRUE, <<Parts(<<WhiteText, JsonText(ValidAi)>>)>>),
   GenHttp(200, 50, TRUE, <<Parts(<<WhiteText>>)>>),
   GenHttp(200, 50, TRUE, <<Parts(<<InlinePart(JsonText(ValidAi))>>)>>),
   GenHttp(200, 50, TRUE, <<Parts(<<JsonText(OrderedAi), JsonText(BlankAi)>>)>>)}
  \cup {GenHttp(200, 50, TRUE, <<Parts(<<NumText, JsonText(ai), BadText(5)>>)>>) :
          ai \in ProviderAis}
  \cup {GenHttp(200, 50, TRUE, <<Parts(<<JsonText(ai)>>)>>) :
          ai \in {BlankAi, EmptyDefinitionAi}}

-----------------------------------------------------------------------------
(* Requests and responses *)

HttpMethods == {"OPTIONS", "GET", "POST", "PUT"}

NoError == Error("", <<>>)

\* The debug object of a response; a property that is not set is "absent"
\* (strings), NoError, 0 (status null) or the empty string
NoDebug ==
  [step |-> "absent", error |-> NoError, status |-> 0, bodySample |-> <<>>,
   pickedModel |-> <<>>, validated |-> "absent", hasKey |-> "absent",
   keyName |-> "absent", userIdPreview |-> <<>>]

NoResponse == [sent |-> FALSE]

\* res.status(code).json({status, ...out, debug}); a body without a status
\* property has status "absent"
Json(code, status, out, debug) ==
  [sent |-> TRUE, http |-> code, kind |-> "json", status |-> status,
   research |-> out.research, concepts |-> out.concepts, debug |-> debug]

\* res.status(code).json(...) of a body with neither research nor concepts
Plain(code, status, error) ==
  [sent |-> TRUE, http |-> code, kind |-> "plain", status |-> status,
   error |-> error]

\* res.status(code).end()
End(code) == [sent |-> TRUE, http |-> code, kind |-> "end"]

\* An outbound call of a request
ListCall == [op |-> "listModels", strict |-> FALSE]
GenCall(strict) == [op |-> "generateContent", strict |-> strict]

\* A request that has arrived at the handler `variant`
NewRequest(variant, method, stream) ==
  [variant |-> variant, method |-> method, stream |-> stream, pc |-> "start",
   apiKey |-> Undef, keyName |-> "null", date |-> Undef, userId |-> Undef,
   pickedModel |-> <<>>, calls |-> <<>>, inflight |-> 0, replies |-> <<>>,
   tries |-> <<>>,
   response |-> NoResponse, escaped |-> FALSE]

\* the handler returns after sending `response`
Finish(q, response) == [q EXCEPT !.pc = "done", !.response = response]

\* an exception leaves the handler: its promise rejects, nothing is sent
Escape(q) == [q EXCEPT !.pc = "done", !.escaped = TRUE]

\* the awaited call settles with `reply`
Settle(q, reply) ==
  [q EXCEPT !.inflight = @ - 1, !.replies = Append(@, reply)]

\* the handler issues an outbound call and awaits it at `pc`
Await(q, call, pc) ==
  [q EXCEPT !.pc = pc, !.calls = Append(@, call), !.inflight = @ + 1]

-----------------------------------------------------------------------------
(* handler of src/unnamed/part_002 (174-286) *)

\* lines 216-223 and 248-254, 272-285: responses built from coerceOutput({})
P2_Mock(q) ==
  LET c == coerceOutput(EmptyObject, q.date)
  IN  IF c.threw THEN Escape(q)
      ELSE Finish(q, Json(200, "mock", c.out,
             [NoDebug EXCEPT !.hasKey = "false", !.keyName = q.keyName,
                !.userIdPreview = Slice(JsString(q.userId), UserIdPreviewLen)]))

\* the listing fallback with the step label of the generation stage
P2_ListFallbackMislabelled(q, err) ==
  LET c == coerceOutput(EmptyObject, q.date)
  IN  IF c.threw THEN Escape(q)
      ELSE Finish(q, Json(200, "fallback", c.out,
             [NoDebug EXCEPT !.step = "generate", !.error = err,
                !.hasKey = "true", !.keyName = q.keyName]))

P2_ListFallback(q, err) ==
  LET c == coerceOutput(EmptyObject, q.date)
  IN  IF c.threw THEN Escape(q)
      ELSE Finish(q, Json(200, "fallback", c.out,
             [NoDebug EXCEPT !.step = "listModels", !.error = err,
                !.hasKey = "true", !.keyName = q.keyName]))

\* the generation stage without its catch block
P2_GenerateUncaught(q, err) == Escape(q)

\* the generate fallback as it would be if it kept the `out` of the first
\* attempt when there is one
P2_GenerateFallbackKeepingFirst(q, err) ==
  LET c == IF Len(q.tries) = 2 /\ ~q.tries[1].coerced.threw
           THEN q.tries[1].coerced
           ELSE coerceOutput(EmptyObject, q.date)
  IN  IF c.threw THEN Escape(q)
      ELSE Finish(q, Json(200, "fallback", c.out,
             [NoDebug EXCEPT !.step = "generate",
                !.pickedModel = q.pickedModel, !.error = err,
                !.status = err.status,
                !.bodySample = IF err.body # <<>> THEN err.body ELSE err.sample]))

P2_GenerateFallback(q, err) ==
  LET c == coerceOutput(EmptyObject, q.date)
  IN  IF c.threw THEN Escape(q)
      ELSE Finish(q, Json(200, "fallback", c.out,
             [NoDebug EXCEPT !.step = "generate",
                !.pickedModel = q.pickedModel, !.error = err,
                !.status = err.status,
                !.bodySample = IF err.body # <<>> THEN err.body ELSE err.sample]))

\* lines 267-271
P2_Result(q, c) ==
  Finish(q, Json(200, IF c.ok THEN "ok" ELSE "fallback", c.out,
           [NoDebug EXCEPT !.hasKey = "true", !.keyName = q.keyName,
              !.pickedModel = q.pickedModel,
              !.validated = IF c.ok THEN "true" ELSE "false"]))

\* both generation calls issued at once
P2_IssueBoth(q) ==
  Await(Await(q, GenCall(FALSE), "gen1"), GenCall(TRUE), "gen1")

\* line 258: the first, non-strict generation call
P2_IssueFirst(q) == Await(q, GenCall(FALSE), "gen1")

\* a retry whatever the verdict
RetryAlways(c) == TRUE

\* line 261: if (!ok)
NeedsRetry(c) == ~c.ok

\* lines 176-211: method gating, credential lookup, start of the body read
P2_Start(r) ==
  /\ h[r].variant = "p2" /\ h[r].pc = "start"
  /\ LET q == [h[r] EXCEPT !.apiKey = ApiKeyOf(env), !.keyName = KeyNameOf(env)]
     IN  h' = [h EXCEPT ![r] =
           IF h[r].method = "OPTIONS" THEN Finish(h[r], End(200))
           ELSE IF h[r].method = "GET" THEN Finish(q, Plain(200, "absent", "absent"))
           ELSE IF h[r].method # "POST" THEN Finish(q, Plain(200, "error", "Use POST"))
           ELSE [q EXCEPT !.pc = "readBody"]]
  /\ UNCHANGED <<env, fx>>

\* the step below as it would be if `date` were a variable of the module,
\* shared by the requests in flight
P2_BodyEndSharedDate(r) ==
  /\ h[r].variant = "p2" /\ h[r].pc = "readBody"
  /\ StreamEnds(h[r].stream)
  /\ LET body == readJsonBody(h[r].stream)
         q == [h[r] EXCEPT !.date = DateOf(body), !.userId = UserIdOf(body)]
     IN  h' = [o \in DOMAIN h |->
                 IF o = r
                   THEN (IF NoUsableKey(q.apiKey) THEN P2_Mock(q)
                         ELSE Await(q, ListCall, "list"))
                 ELSE [h[o] EXCEPT !.date = q.date]]
  /\ UNCHANGED <<env, fx>>

\* lines 9-12 and 211-229: the stream ends, the body is parsed; mock reply
\* without a usable key, otherwise the listing call is issued
P2_BodyEnd(r) ==
  /\ h[r].variant = "p2" /\ h[r].pc = "readBody"
  /\ StreamEnds(h[r].stream)
  /\ LET body == readJsonBody(h[r].stream)
         q == [h[r] EXCEPT !.date = DateOf(body), !.userId = UserIdOf(body)]
     IN  h' = [h EXCEPT ![r] =
           IF NoUsableKey(q.apiKey) THEN P2_Mock(q)
           ELSE Await(q, ListCall, "list")]
  /\ UNCHANGED <<env, fx>>

\* lines 229-258: the listing call settles; a model is picked and the first
\* generation call is issued, or the listModels fallback is sent
P2_ListDone(r) ==
  /\ h[r].variant = "p2" /\ h[r].pc = "list"
  /\ \E reply \in ListReplies :
       LET q == Settle(h[r], reply)
           pick == PickModel(reply)
       IN  h' = [h EXCEPT ![r] =
             IF pick.threw THEN P2_ListFallback(q, pick.err)
             ELSE P2_IssueFirst([q EXCEPT !.pickedModel = pick.model])]
  /\ UNCHANGED <<env, fx>>

\* lines 258-263: the first generation call settles; its content is
\* validated and either returned or retried with the strict prompt
P2_FirstDone(r) ==
  /\ h[r].variant = "p2" /\ h[r].pc = "gen1"
  /\ \E reply \in GenReplies :
       LET g == geminiGenerate(reply)
           c == coerceOutput(g.ai, h[r].date)
           q == [Settle(h[r], reply) EXCEPT
                   !.tries = Append(@, [decoded |-> ~g.threw, coerced |-> c])]
       IN  h' = [h EXCEPT ![r] =
             IF g.threw THEN P2_GenerateFallback(q, g.err)
             ELSE IF c.threw
               THEN P2_GenerateFallback(q, Error("TypeError: trim is not a function", <<>>))
             ELSE IF NeedsRetry(c) THEN Await(q, GenCall(TRUE), "gen2")
             ELSE P2_Result(q, c)]
  /\ UNCHANGED <<env, fx>>

\* lines 263-271: the strict retry settles; its result is final
P2_RetryDone(r) ==
  /\ h[r].variant = "p2" /\ h[r].pc = "gen2"
  /\ \E reply \in GenReplies :
       LET g == geminiGenerate(reply)
           c == coerceOutput(g.ai, h[r].date)
           q == [Settle(h[r], reply) EXCEPT
                   !.tries = Append(@, [decoded |-> ~g.threw, coerced |-> c])]
       IN  h' = [h EXCEPT ![r] =
             IF g.threw THEN P2_GenerateFallback(q, g.err)
             ELSE IF c.threw
               THEN P2_GenerateFallback(q, Error("TypeError: trim is not a function", <<>>))
             ELSE P2_Result(q, c)]
  /\ UNCHANGED <<env, fx>>

P2_Next(r) ==
  \/ P2_Start(r) \/ P2_BodyEnd(r) \/ P2_ListDone(r)
  \/ P2_FirstDone(r) \/ P2_RetryDone(r)

-----------------------------------------------------------------------------
(* first handler of src/api/generate.js (20-170) *)

G1_MaxConcepts == 3
G1_MaxTerm == 120
G1_MaxDefinition == 800
G1_UpstreamBodyCap == 900
G1_ErrorCap == 700

\* String(err): the error's name and message, then the upstream text it quotes
ErrorText(err) ==
  CASE err.msg = "TypeError: fetch failed" -> Words(<<10, 5, 6>>)
    [] err.msg = "Error: listModels" -> Concat(Words(<<6, 10, 4, 0>>), err.detail)
    [] OTHER -> Concat(Words(<<12, 10, 5, 0>>), err.detail)

\* Replies to the generateContent call of this handler, which parses the
\* body text itself as the content: the text is JSON, JSON inside code
\* fences, or neither
G1_Http(status, len, parse, ai) ==
  [kind |-> "http", status |-> status, raw |-> P(len), parse |-> parse,
   ai |-> ai]
G1_Replies ==
  {GenReject, G1_Http(429, G1_UpstreamBodyCap + 100, "bad", [t |-> "null"]),
   G1_Http(503, 0, "bad", [t |-> "null"]),
   G1_Http(200, 50, "bad", [t |-> "null"])}
  \cup {G1_Http(200, 50, parse, ai) :
          parse \in {"json", "fenced"},
          ai \in {ValidAi, BlankAi, NumTitleAi, EmptyDefinitionAi, [t |-> "null"],
                  OrderedAi}}

\* lines 57-71: the mock body (it has no status property)
G1_MockBody(date) ==
  [research |->
     [title |-> Str(Concat(Words(<<6, 5, 3, 0>>), JsString(date))),
      introduction |-> Str(Words(<<2, 14, 5, 2, 7, 7, 4, 8>>)),
      keyFindings |-> Str(Words(<<3, 14, 2, 6, 1, 8, 1, 11, 10, 4, 9>>)),
      conclusion |-> Str(Words(<<4, 4, 4, 4, 6, 2, 4, 2, 6, 14>>)),
      source |-> Str(Words(<<6, 6>>))],
   concepts |->
     << [term |-> Words(<<12>>), definition |-> Words(<<10, 5, 8, 11>>)],
        [term |-> Words(<<13>>), definition |-> Words(<<7, 8, 4, 8>>)],
        [term |-> Words(<<9, 4>>), definition |-> Words(<<6, 2, 7, 6, 5, 5>>)] >>]

\* lines 111-121: the body sent for a non-2xx upstream reply
G1_UpstreamErrorBody(date, reply) ==
  [research |->
     [title |-> Str(Concat(Words(<<2, 5, 7, 0>>), Concat(P(3),
                  Concat(Words(<<1, 1, 8, 3, 0>>), JsString(date))))),
      introduction |-> Str(Words(<<3, 2, 4, 3, 3, 8>>)),
      keyFindings |-> Str(Words(<<5, 3, 5, 5, 3, 6, 4, 4, 6, 13>>)),
      conclusion |-> Str(Words(<<3, 3, 8>>)),
      source |-> Str(Words(<<6>>))],
   concepts |-> <<>>]

\* lines 158-168: the body sent when an exception is caught
G1_ExceptionBody(date, err) ==
  [research |->
     [title |-> Str(Concat(Words(<<6, 9, 1, 8, 3, 0>>), JsString(date))),
      introduction |-> Str(Words(<<2, 10, 5, 8, 5, 10, 8>>)),
      keyFindings |-> Str(Slice(ErrorText(err), G1_ErrorCap)),
      conclusion |-> Str(Words(<<3, 5, 6, 5, 6, 8, 5>>)),
      source |-> Str(Words(<<6>>))],
   concepts |-> <<>>]

\* lines 138-153: the provider's content coerced to the UI schema
G1_Data(ai, date) ==
  [research |->
     [title |-> Coalesce(ResearchField(ai, "title"),
                         Str(Concat(Words(<<8, 1, 0>>), JsString(date)))),
      introduction |-> Coalesce(ResearchField(ai, "introduction"), Str(<<>>)),
      keyFindings |-> Coalesce(ResearchField(ai, "keyFindings"), Str(<<>>)),
      conclusion |-> Coalesce(ResearchField(ai, "conclusion"), Str(<<>>)),
      source |-> Coalesce(ResearchField(ai, "source"), Str(Words(<<7, 10>>)))],
   concepts |->
     IF ai.t = "obj" /\ ai.concepts.t = "arr"
     THEN [i \in 1..Min(Len(ai.concepts.items), G1_MaxConcepts) |->
            [term |-> Slice(JsString(Coalesce(
                         EntryField(ai.concepts.items[i], "term"), Str(<<>>))),
                            G1_MaxTerm),
             definition |-> Slice(JsString(Coalesce(
                         EntryField(ai.concepts.items[i], "definition"), Str(<<>>))),
                            G1_MaxDefinition)]]
     ELSE <<>>]

G1_Debug(q) ==
  [NoDebug EXCEPT !.hasKey = IF Truthy(q.apiKey) THEN "true" ELSE "false",
                  !.userIdPreview = Slice(JsString(q.userId), UserIdPreviewLen)]

\* lines 21-39: method gating, start of the body read
G1_Start(r) ==
  /\ h[r].variant = "g1" /\ h[r].pc = "start"
  /\ h' = [h EXCEPT ![r] =
        IF h[r].method = "OPTIONS" THEN Finish(h[r], End(200))
        ELSE IF h[r].method = "GET" THEN Finish(h[r], Plain(200, "absent", "absent"))
        ELSE IF h[r].method # "POST" THEN Finish(h[r], Plain(200, "absent", "Use POST"))
        ELSE [h[r] EXCEPT !.pc = "readBody"]]
  /\ UNCHANGED <<env, fx>>

\* lines 39-106: body parsed, GOOGLE_API_KEY read; the mock body without a
\* usable key, otherwise the generateContent call is issued
G1_BodyEnd(r) ==
  /\ h[r].variant = "g1" /\ h[r].pc = "readBody"
  /\ StreamEnds(h[r].stream)
  /\ LET body == readJsonBody(h[r].stream)
         q == [h[r] EXCEPT !.date = DateOf(body), !.userId = UserIdOf(body),
                 !.apiKey = env[EnvNames[1]]]
     IN  h' = [h EXCEPT ![r] =
           IF NoUsableKey(q.apiKey)
           THEN Finish(q, Json(200, "absent", G1_MockBody(q.date), G1_Debug(q)))
           ELSE Await(q, GenCall(FALSE), "gen1")]
  /\ UNCHANGED <<env, fx>>

\* lines 108-169: the call settles; upstream error body, exception body or
\* the coerced content, each with status code 200
G1_GenDone(r) ==
  /\ h[r].variant = "g1" /\ h[r].pc = "gen1"
  /\ \E reply \in G1_Replies :
       LET q == Settle(h[r], reply)
       IN  h' = [h EXCEPT ![r] =
             IF reply.kind = "reject"
               THEN Finish(q, Json(200, "absent",
                      G1_ExceptionBody(q.date, Error("TypeError: fetch failed", <<>>)),
                      G1_Debug(q)))
             ELSE IF ~Ok2xx(reply.status)
               THEN Finish(q, Json(200, "absent",
                      G1_UpstreamErrorBody(q.date, reply),
                      [G1_Debug(q) EXCEPT !.status = reply.status,
                         !.bodySample = Slice(reply.raw, G1_UpstreamBodyCap)]))
             ELSE IF reply.parse = "bad"
               THEN Finish(q, Json(200, "absent",
                      G1_ExceptionBody(q.date, Error("SyntaxError", <<>>)),
                      G1_Debug(q)))
             ELSE Finish(q, Json(200, "absent", G1_Data(reply.ai, q.date),
                                 G1_Debug(q)))]
  /\ UNCHANGED <<env, fx>>

G1_Next(r) == G1_Start(r) \/ G1_BodyEnd(r) \/ G1_GenDone(r)

-----------------------------------------------------------------------------
(* coerceOutput and first handler of src/unnamed/part_003 (17-231) *)

P3_MinTitle == 6
P3_MinIntroduction == 40
P3_MinKeyFindings == 40
P3_MinConclusion == 20
P3_MinDefinition == 40
P3_MaxConcepts == 3
P3_MaxDefinition == 900
P3_BodyCap == 700
P3_SampleCap == 400

\* 'General literature'
P3_DefaultSource == Words(<<7, 10>>)

\* the operand of .trim() in lines 20-24
P3_TrimOperand(ai, f) ==
  Coalesce(ResearchField(ai, f),
           IF f = "source" THEN Str(P3_DefaultSource) ELSE Str(<<>>))

\* lines 18-30
P3_CoerceFields(ai) ==
  [research |-> [f \in ResearchFields |-> Trim(P3_TrimOperand(ai, f).s)],
   concepts |->
     IF ai.t = "obj" /\ ai.concepts.t = "arr"
     THEN [i \in 1..Min(Len(ai.concepts.items), P3_MaxConcepts) |->
            [term |-> Slice(Trim(JsString(Coalesce(
                         EntryField(ai.concepts.items[i], "term"), Str(<<>>)))),
                            MaxTerm),
             definition |-> Slice(Trim(JsString(Coalesce(
                         EntryField(ai.concepts.items[i], "definition"), Str(<<>>)))),
                            P3_MaxDefinition)]]
     ELSE <<>>]

\* lines 32-38
P3_Valid(out) ==
  /\ StrLen(out.research.title) >= P3_MinTitle
  /\ StrLen(out.research.introduction) >= P3_MinIntroduction
  /\ StrLen(out.research.keyFindings) >= P3_MinKeyFindings
  /\ StrLen(out.research.conclusion) >= P3_MinConclusion
  /\ Len(out.concepts) >= MinConcepts
  /\ \A i \in 1..Len(out.concepts) :
        /\ out.concepts[i].term # <<>>
        /\ StrLen(out.concepts[i].definition) >= P3_MinDefinition

\* coerceOutput(ai, date) of part_003: it returns `out` alone; the defaults
\* of lines 40-55 are those of part_002
P3_coerceOutput(ai, date) ==
  IF \E f \in ResearchFields : P3_TrimOperand(ai, f).t # "str"
  THEN [threw |-> TRUE, out |-> NoOut]
  ELSE LET out == P3_CoerceFields(ai)
       IN  [threw |-> FALSE,
            out   |-> IF P3_Valid(out) THEN out
                      ELSE FillDefaults(out, JsString(date))]

\* lines 191-194: parts?.[0]?.text ?? parts?.[0]?.inlineData?.data ?? ''
P3_Text(reply) ==
  LET parts == IF reply.candidates = <<>> THEN NoParts ELSE reply.candidates[1]
      first == IF parts.t = "arr" /\ parts.items # <<>>
               THEN parts.items[1] ELSE NoText
  IN  IF first.t # "undef" THEN first
      ELSE IF "inline" \in DOMAIN first THEN first.inline
      ELSE BlankText

\* every fallback of the handler: coerceOutput({}, date) with a debug object
P3_Fallback(q, debug) ==
  LET c == P3_coerceOutput(EmptyObject, q.date)
  IN  IF c.threw THEN Escape(q)
      ELSE Finish(q, Json(200, "fallback", c.out, debug))

\* lines 224-229: the catch of the generation stage
P3_Exception(q, err) ==
  P3_Fallback(q, [NoDebug EXCEPT !.step = "exception",
                    !.pickedModel = q.pickedModel, !.error = err])

\* lines 61-92
P3_Start(r) ==
  /\ h[r].variant = "p3" /\ h[r].pc = "start"
  /\ LET q == [h[r] EXCEPT !.apiKey = ApiKeyOf(env), !.keyName = KeyNameOf(env)]
     IN  h' = [h EXCEPT ![r] =
           IF h[r].method = "OPTIONS" THEN Finish(h[r], End(200))
           ELSE IF h[r].method = "GET" THEN Finish(q, Plain(200, "absent", "absent"))
           ELSE IF h[r].method # "POST" THEN Finish(q, Plain(200, "error", "Use POST"))
           ELSE [q EXCEPT !.pc = "readBody"]]
  /\ UNCHANGED <<env, fx>>

\* lines 92-110
P3_BodyEnd(r) ==
  /\ h[r].variant = "p3" /\ h[r].pc = "readBody"
  /\ StreamEnds(h[r].stream)
  /\ LET body == readJsonBody(h[r].stream)
         q == [h[r] EXCEPT !.date = DateOf(body), !.userId = UserIdOf(body)]
         c == P3_coerceOutput(EmptyObject, q.date)
     IN  h' = [h EXCEPT ![r] =
           IF NoUsableKey(q.apiKey)
           THEN Finish(q, Json(200, "mock", c.out,
                  [NoDebug EXCEPT !.hasKey = "false", !.keyName = q.keyName,
                     !.userIdPreview = Slice(JsString(q.userId), UserIdPreviewLen)]))
           ELSE Await(q, ListCall, "list")]
  /\ UNCHANGED <<env, fx>>

\* lines 110-168: the listing settles; the selection is that of part_002
\* (the pattern /gemini-([12]\.5|2)\-(flash|pro)/ accepts the same names)
P3_ListDone(r) ==
  /\ h[r].variant = "p3" /\ h[r].pc = "list"
  /\ \E reply \in ListReplies :
       LET q == Settle(h[r], reply)
           pick == PickModel(reply)
       IN  h' = [h EXCEPT ![r] =
             IF pick.threw
             THEN P3_Fallback(q, [NoDebug EXCEPT !.step = "listModels",
                                    !.error = pick.err, !.hasKey = "true",
                                    !.keyName = q.keyName])
             ELSE Await([q EXCEPT !.pickedModel = pick.model],
                        GenCall(FALSE), "gen1")]
  /\ UNCHANGED <<env, fx>>

\* lines 170-229: the generation call settles
P3_GenDone(r) ==
  /\ h[r].variant = "p3" /\ h[r].pc = "gen1"
  /\ \E reply \in GenReplies :
       LET q == Settle(h[r], reply)
       IN  h' = [h EXCEPT ![r] =
             IF reply.kind = "reject"
               THEN P3_Exception(q, Error("TypeError: fetch failed", <<>>))
             ELSE IF ~Ok2xx(reply.status)
               THEN P3_Fallback(q, [NoDebug EXCEPT
                      !.step = "generateContent-response",
                      !.pickedModel = q.pickedModel, !.status = reply.status,
                      !.bodySample = Slice(reply.raw, P3_BodyCap)])
             ELSE IF ~reply.parsable
               THEN P3_Fallback(q, [NoDebug EXCEPT !.step = "parse-wrapper",
                      !.pickedModel = q.pickedModel,
                      !.bodySample = Slice(reply.raw, P3_SampleCap)])
             ELSE LET text == P3_Text(reply)
                  IN  IF text.t = "num"
                        THEN P3_Exception(q,
                               Error("TypeError: trim is not a function", <<>>))
                      ELSE IF text.blank /\ "white" \notin DOMAIN text
                        THEN P3_Fallback(q, [NoDebug EXCEPT !.step = "no-text",
                               !.pickedModel = q.pickedModel])
                      ELSE IF ~text.json
                        THEN P3_Fallback(q, [NoDebug EXCEPT !.step = "parse-inner",
                               !.pickedModel = q.pickedModel,
                               !.error = Error("SyntaxError", <<>>),
                               !.bodySample = Slice(P(text.len), P3_SampleCap)])
                      ELSE LET c == P3_coerceOutput(text.ai, q.date)
                           IN  IF c.threw
                                 THEN P3_Exception(q,
                                        Error("TypeError: trim is not a function", <<>>))
                               ELSE Finish(q, Json(200, "ok", c.out,
                                      [NoDebug EXCEPT !.hasKey = "true",
                                         !.keyName = q.keyName,
                                         !.pickedModel = q.pickedModel]))]
  /\ UNCHANGED <<env, fx>>

P3_Next(r) == P3_Start(r) \/ P3_BodyEnd(r) \/ P3_ListDone(r) \/ P3_GenDone(r)

-----------------------------------------------------------------------------
(* handler of src/unnamed/part_001 (17-270) *)

P1_MaxConcepts == 3
P1_MaxDefinition == 900
P1_ErrorCap == 600
P1_ListTextCap == 800
P1_UpstreamBodyCap == 900

\* /gemini-1\.5-(flash|pro)/.test(name)
P1_Preferred(name) ==
  /\ name.t = "str"
  /\ \E i \in 1..Len(name.toks) :
       /\ i + 3 <= Len(name.toks)
       /\ name.toks[i] = "gemini-"
       /\ name.toks[i + 1] = "1.5"
       /\ name.toks[i + 2] = "-"
       /\ name.toks[i + 3] \in {"flash", "pro"}

\* lines 136-144
P1_PreferredAndSupported(m) == P1_Preferred(m.name) /\ supports(m)

\* line 151: preferred[0]?.name || general[0]?.name || ''
P1_ChosenName(models) ==
  LET preferred == SelectSeq(models, P1_PreferredAndSupported)
      general   == SelectSeq(models, supports)
  IN  IF preferred # <<>> /\ TruthyName(preferred[1].name) THEN preferred[1].name
      ELSE IF general # <<>> /\ TruthyName(general[1].name) THEN general[1].name
      ELSE Name(<<>>)

\* a response body of this handler
P1_Body(title, introduction, keyFindings, conclusion, source, concepts) ==
  [research |-> [title |-> Str(title), introduction |-> Str(introduction),
                 keyFindings |-> Str(keyFindings),
                 conclusion |-> Str(conclusion), source |-> Str(source)],
   concepts |-> concepts]

\* lines 60-75
P1_MockBody(date) ==
  P1_Body(Concat(Words(<<6, 5, 3, 0>>), JsString(date)),
          Words(<<2, 6, 3, 3, 5, 2, 6, 5, 9>>),
          Words(<<3, 14, 2, 6, 1, 7, 1, 8, 1, 11, 10, 4, 9>>),
          Words(<<4, 4, 4, 4, 11, 2, 4, 3>>),
          Words(<<6, 6>>),
          << [term |-> Words(<<12>>), definition |-> Words(<<10, 5, 8, 11>>)],
             [term |-> Words(<<13>>), definition |-> Words(<<7, 8, 4, 8>>)],
             [term |-> Words(<<9, 4>>),
              definition |-> Words(<<3, 4, 7, 6, 2, 5, 5>>)] >>)

\* lines 87-98
P1_ListFetchBody(date, err) ==
  P1_Body(Concat(Words(<<5, 4, 5, 1, 8, 3, 0>>), JsString(date)),
          Words(<<5, 3, 5, 3, 6, 4, 9>>),
          Slice(ErrorText(err), P1_ErrorCap),
          Words(<<5, 7, 2, 3, 3, 8>>), Words(<<6>>), <<>>)

\* lines 102-113
P1_ListResponseBody(date, reply) ==
  P1_Body(Concat(Words(<<5, 4, 5, 1>>), Concat(P(3),
            Concat(Words(<<1, 1, 8, 3, 0>>), JsString(date)))),
          Words(<<3, 6, 4, 7, 7>>),
          Slice(reply.text, P1_ListTextCap),
          Words(<<3, 3, 8>>), Words(<<6>>), <<>>)

\* lines 120-131
P1_ListParseBody(date, reply) ==
  P1_Body(Concat(Words(<<5, 4, 5, 5, 1, 8, 3, 0>>), JsString(date)),
          Words(<<5, 3, 5, 3, 6, 5>>),
          Slice(reply.text, P1_ListTextCap),
          Words(<<3, 6>>), Words(<<6>>), <<>>)

\* lines 153-168
P1_NoModelBody(date) ==
  P1_Body(Concat(Words(<<2, 6, 5, 1, 8, 3, 0>>), JsString(date)),
          Words(<<4, 3, 5, 2, 6, 4, 7, 16>>),
          Words(<<6, 6, 3, 3, 4, 11, 2, 6, 1, 3, 3, 3, 2, 2, 7>>),
          Words(<<6, 3, 4, 4, 8>>), Words(<<6>>), <<>>)

\* lines 210-221
P1_GenFetchBody(date, err) ==
  P1_Body(Concat(Words(<<2, 4, 5, 1, 8, 3, 0>>), JsString(date)),
          Words(<<7, 5, 5, 7, 3, 6>>),
          Slice(ErrorText(err), P1_ErrorCap),
          Words(<<5, 10, 3, 3, 6>>), Words(<<6>>), <<>>)

\* lines 225-236
P1_GenResponseBody(date, reply) ==
  P1_Body(Concat(Words(<<2, 5, 1>>), Concat(P(3),
            Concat(Words(<<1, 1, 8, 3, 0>>), JsString(date)))),
          Words(<<3, 2, 4, 3, 3, 8>>),
          IF reply.raw # <<>> THEN Slice(reply.raw, P1_UpstreamBodyCap)
          ELSE Words(<<2, 8, 5>>),
          Words(<<5, 5, 1, 3, 1, 8>>), Words(<<6>>), <<>>)

\* lines 253-269: the provider's content coerced to the UI schema
P1_Data(ai, date) ==
  [research |->
     [title |-> Coalesce(ResearchField(ai, "title"),
                         Str(Concat(Words(<<8, 1, 0>>), JsString(date)))),
      introduction |-> Coalesce(ResearchField(ai, "introduction"), Str(<<>>)),
      keyFindings |-> Coalesce(ResearchField(ai, "keyFindings"), Str(<<>>)),
      conclusion |-> Coalesce(ResearchField(ai, "conclusion"), Str(<<>>)),
      source |-> Coalesce(ResearchField(ai, "source"), Str(Words(<<7, 10>>)))],
   concepts |->
     IF ai.t = "obj" /\ ai.concepts.t = "arr"
     THEN [i \in 1..Min(Len(ai.concepts.items), P1_MaxConcepts) |->
            [term |-> Slice(JsString(Coalesce(
                         EntryField(ai.concepts.items[i], "term"), Str(<<>>))),
                            MaxTerm),
             definition |-> Slice(JsString(Coalesce(
                         EntryField(ai.concepts.items[i], "definition"), Str(<<>>))),
                            P1_MaxDefinition)]]
     ELSE <<>>]

\* lines 19-54
P1_Start(r) ==
  /\ h[r].variant = "p1" /\ h[r].pc = "start"
  /\ LET q == [h[r] EXCEPT !.apiKey = ApiKeyOf(env), !.keyName = KeyNameOf(env)]
     IN  h' = [h EXCEPT ![r] =
           IF h[r].method = "OPTIONS" THEN Finish(h[r], End(200))
           ELSE IF h[r].method = "GET" THEN Finish(q, Plain(200, "absent", "absent"))
           ELSE IF h[r].method # "POST" THEN Finish(q, Plain(200, "error", "Use POST"))
           ELSE [q EXCEPT !.pc = "readBody"]]
  /\ UNCHANGED <<env, fx>>

\* lines 54-84
P1_BodyEnd(r) ==
  /\ h[r].variant = "p1" /\ h[r].pc = "readBody"
  /\ StreamEnds(h[r].stream)
  /\ LET body == readJsonBody(h[r].stream)
         q == [h[r] EXCEPT !.date = DateOf(body), !.userId = UserIdOf(body)]
     IN  h' = [h EXCEPT ![r] =
           IF NoUsableKey(q.apiKey)
           THEN Finish(q, Json(200, "mock", P1_MockBody(q.date),
                  [NoDebug EXCEPT !.hasKey = "false", !.keyName = q.keyName,
                     !.userIdPreview = Slice(JsString(q.userId), UserIdPreviewLen)]))
           ELSE Await(q, ListCall, "list")]
  /\ UNCHANGED <<env, fx>>

\* lines 84-207: the listing settles; one fallback per failing step, else
\* the model is picked and the generation call issued.  Line 151 is outside
\* every try: a picked name that is not a string makes .replace throw.
P1_ListDone(r) ==
  /\ h[r].variant = "p1" /\ h[r].pc = "list"
  /\ \E reply \in ListReplies :
       LET q == Settle(h[r], reply)
           fetchErr == Error("TypeError: fetch failed", <<>>)
       IN  h' = [h EXCEPT ![r] =
             IF reply.kind = "reject"
               THEN Finish(q, Json(200, "fallback",
                      P1_ListFetchBody(q.date, fetchErr),
                      [NoDebug EXCEPT !.step = "listModels-fetch",
                         !.error = fetchErr]))
             ELSE IF ~Ok2xx(reply.status)
               THEN Finish(q, Json(200, "fallback",
                      P1_ListResponseBody(q.date, reply),
                      [NoDebug EXCEPT !.step = "listModels-response",
                         !.status = reply.status]))
             ELSE IF ~reply.parsable
               THEN Finish(q, Json(200, "fallback",
                      P1_ListParseBody(q.date, reply),
                      [NoDebug EXCEPT !.step = "listModels-parse"]))
             ELSE LET chosen == P1_ChosenName(
                                  IF reply.hasArray THEN reply.models ELSE <<>>)
                  IN  IF chosen.t = "num" THEN Escape(q)
                      ELSE IF StripModelsPrefix(chosen.toks) = <<>>
                        THEN Finish(q, Json(200, "fallback", P1_NoModelBody(q.date),
                               [NoDebug EXCEPT !.step = "pickModel"]))
                      ELSE Await([q EXCEPT !.pickedModel =
                                    StripModelsPrefix(chosen.toks)],
                                 GenCall(FALSE), "gen1")]
  /\ UNCHANGED <<env, fx>>

\* lines 208-269: the generation call settles.  The second JSON.parse, of
\* the cleaned text (line 249), is in the catch of the first and in no try:
\* text that is still not JSON makes the handler throw.
P1_GenDone(r) ==
  /\ h[r].variant = "p1" /\ h[r].pc = "gen1"
  /\ \E reply \in G1_Replies :
       LET q == Settle(h[r], reply)
           fetchErr == Error("TypeError: fetch failed", <<>>)
       IN  h' = [h EXCEPT ![r] =
             IF reply.kind = "reject"
               THEN Finish(q, Json(200, "fallback",
                      P1_GenFetchBody(q.date, fetchErr),
                      [NoDebug EXCEPT !.step = "generateContent-fetch",
                         !.pickedModel = q.pickedModel, !.error = fetchErr]))
             ELSE IF ~Ok2xx(reply.status)
               THEN Finish(q, Json(200, "fallback",
                      P1_GenResponseBody(q.date, reply),
                      [NoDebug EXCEPT !.step = "generateContent-response",
                         !.pickedModel = q.pickedModel,
                         !.status = reply.status]))
             ELSE IF reply.parse = "bad" THEN Escape(q)
             ELSE Finish(q, Json(200, "ok", P1_Data(reply.ai, q.date),
                    [NoDebug EXCEPT !.hasKey = "true", !.keyName = q.keyName,
                       !.pickedModel = q.pickedModel]))]
  /\ UNCHANGED <<env, fx>>

P1_Next(r) == P1_Start(r) \/ P1_BodyEnd(r) \/ P1_ListDone(r) \/ P1_GenDone(r)

-----------------------------------------------------------------------------
(* second handler of src/api/generate.js (187-331) *)

G2_MaxConcepts == 3
G2_BodyCap == 500
G2_ErrorCap == 500

\* lines 236-250: the mock body (it has no status property)
G2_MockBody(date) ==
  P1_Body(Concat(Words(<<6, 5, 3, 0>>), JsString(date)),
          Words(<<2, 6, 3, 3, 5, 2, 3, 6, 5, 9>>),
          Words(<<3, 4, 3, 2, 6, 3, 9>>),
          Words(<<4, 4, 4, 4, 11, 2, 4, 3>>),
          Words(<<6, 6>>),
          << [term |-> Words(<<12>>), definition |-> Words(<<10, 5, 8, 11>>)],
             [term |-> Words(<<13>>), definition |-> Words(<<7, 8, 4, 8>>)],
             [term |-> Words(<<9, 4>>),
              definition |-> Words(<<6, 2, 7, 6, 5, 5>>)] >>)

\* lines 283-293
G2_UpstreamErrorBody(date, reply) ==
  P1_Body(Concat(Words(<<2, 5, 1>>), Concat(P(3),
            Concat(Words(<<1, 1, 8, 3, 0>>), JsString(date)))),
          Words(<<3, 2, 4, 3, 3, 8>>),
          Slice(reply.raw, G2_BodyCap),
          Words(<<3, 3, 5, 3, 8>>), Words(<<6>>), <<>>)

\* lines 319-329
G2_ExceptionBody(date, err) ==
  P1_Body(Concat(Words(<<6, 9, 1, 8, 3, 0>>), JsString(date)),
          Words(<<10, 5, 5, 10, 8>>),
          Slice(ErrorText(err), G2_ErrorCap),
          Words(<<3, 6, 4, 5, 6, 5>>), Words(<<6>>), <<>>)

\* lines 307-317: the entries of ai.concepts.slice(0,3) are sent as they are
G2_Data(ai, date) ==
  [research |->
     [title |-> Coalesce(ResearchField(ai, "title"),
                         Str(Concat(Words(<<8, 1, 0>>), JsString(date)))),
      introduction |-> Coalesce(ResearchField(ai, "introduction"), Str(<<>>)),
      keyFindings |-> Coalesce(ResearchField(ai, "keyFindings"), Str(<<>>)),
      conclusion |-> Coalesce(ResearchField(ai, "conclusion"), Str(<<>>)),
      source |-> Coalesce(ResearchField(ai, "source"), Str(Words(<<7, 10>>)))],
   concepts |->
     IF ai.t = "obj" /\ ai.concepts.t = "arr"
     THEN SubSeq(ai.concepts.items, 1,
                 Min(Len(ai.concepts.items), G2_MaxConcepts))
     ELSE <<>>]

G2_Debug(q) ==
  [NoDebug EXCEPT !.hasKey = "true", !.keyName = q.keyName]

\* the catch block sending status code 500
G2_CatchServerError(q, err) ==
  Finish(q, Json(500, "absent", G2_ExceptionBody(q.date, err),
                 [G2_Debug(q) EXCEPT !.error = err]))

\* lines 318-330: the catch block of the live call
G2_Catch(q, err) ==
  Finish(q, Json(200, "absent", G2_ExceptionBody(q.date, err),
                 [G2_Debug(q) EXCEPT !.error = err]))

\* lines 189-231
G2_Start(r) ==
  /\ h[r].variant = "g2" /\ h[r].pc = "start"
  /\ LET q == [h[r] EXCEPT !.apiKey = ApiKeyOf(env), !.keyName = KeyNameOf(env)]
     IN  h' = [h EXCEPT ![r] =
           IF h[r].method = "OPTIONS" THEN Finish(h[r], End(200))
           ELSE IF h[r].method = "GET" THEN Finish(q, Plain(200, "absent", "absent"))
           ELSE IF h[r].method # "POST" THEN Finish(q, Plain(200, "absent", "Use POST"))
           ELSE [q EXCEPT !.pc = "readBody"]]
  /\ UNCHANGED <<env, fx>>

\* lines 231-279
G2_BodyEnd(r) ==
  /\ h[r].variant = "g2" /\ h[r].pc = "readBody"
  /\ StreamEnds(h[r].stream)
  /\ LET body == readJsonBody(h[r].stream)
         q == [h[r] EXCEPT !.date = DateOf(body)]
     IN  h' = [h EXCEPT ![r] =
           IF NoUsableKey(q.apiKey)
           THEN Finish(q, Json(200, "absent", G2_MockBody(q.date),
                  [NoDebug EXCEPT !.hasKey = "false", !.keyName = q.keyName]))
           ELSE Await(q, GenCall(FALSE), "gen1")]
  /\ UNCHANGED <<env, fx>>

\* lines 281-330
G2_GenDone(r) ==
  /\ h[r].variant = "g2" /\ h[r].pc = "gen1"
  /\ \E reply \in G1_Replies :
       LET q == Settle(h[r], reply)
       IN  h' = [h EXCEPT ![r] =
             IF reply.kind = "reject"
               THEN G2_Catch(q, Error("TypeError: fetch failed", <<>>))
             ELSE IF ~Ok2xx(reply.status)
               THEN Finish(q, Json(200, "absent",
                      G2_UpstreamErrorBody(q.date, reply),
                      [G2_Debug(q) EXCEPT !.status = reply.status]))
             ELSE IF reply.parse = "bad"
               THEN G2_Catch(q, Error("SyntaxError", <<>>))
             ELSE Finish(q, Json(200, "absent", G2_Data(reply.ai, q.date),
                                 G2_Debug(q)))]
  /\ UNCHANGED <<env, fx>>

G2_Next(r) == G2_Start(r) \/ G2_BodyEnd(r) \/ G2_GenDone(r)

-----------------------------------------------------------------------------
(* handler of src/unnamed/part_000 (2-110) *)

P0_MaxConcepts == 3
P0_MaxTerm == 120
P0_MaxDefinition == 600

\* req.body as the platform hands it to the handler, which does not read the
\* stream itself: undefined when nothing parsed the body, the parsed value
\* of a JSON body, or a getter that throws on a body that is not JSON
P0_Bodies(stream) ==
  {[t |-> "undef"]}
  \cup (IF stream.kind = "json" THEN {stream.value} ELSE {})
  \cup (IF stream.kind = "malformed" THEN {[t |-> "throws"]} ELSE {})

\* line 16: the default applies to a date that is undefined
P0_DateOf(body) ==
  IF body.t = "obj" /\ body.date.t # "undef" THEN body.date ELSE IsoDate

P0_UserIdOf(body) ==
  IF body.t = "obj" /\ body.userId.t # "undef" THEN body.userId
  ELSE Str(Words(<<4>>))

\* lines 92-104: the provider's content coerced to the UI schema
P0_Data(ai) ==
  [research |->
     [title |-> Coalesce(ResearchField(ai, "title"), Str(Words(<<8>>))),
      introduction |-> Coalesce(ResearchField(ai, "introduction"), Str(<<>>)),
      keyFindings |-> Coalesce(ResearchField(ai, "keyFindings"), Str(<<>>)),
      conclusion |-> Coalesce(ResearchField(ai, "conclusion"), Str(<<>>)),
      source |-> Coalesce(ResearchField(ai, "source"), Str(Words(<<7, 10>>)))],
   concepts |->
     IF ai.t = "obj" /\ ai.concepts.t = "arr"
     THEN [i \in 1..Min(Len(ai.concepts.items), P0_MaxConcepts) |->
            [term |-> Slice(JsString(Coalesce(
                         EntryField(ai.concepts.items[i], "term"), Str(<<>>))),
                            P0_MaxTerm),
             definition |-> Slice(JsString(Coalesce(
                         EntryField(ai.concepts.items[i], "definition"), Str(<<>>))),
                            P0_MaxDefinition)]]
     ELSE <<>>]

\* the method gate as it would be if it let every method but OPTIONS and GET
\* through to the pipeline
P0_GateOpen(method) == method \in {"OPTIONS", "GET"}

\* lines 7-12: the methods answered before the pipeline
P0_Gate(method) == method # "POST"

\* lines 7-59: method gating; for a POST the key and req.body are read and
\* the generateContent call is issued
P0_Start(r) ==
  /\ h[r].variant = "p0" /\ h[r].pc = "start"
  /\ \E body \in P0_Bodies(h[r].stream) :
       LET q == [h[r] EXCEPT !.date = P0_DateOf(body),
                   !.userId = P0_UserIdOf(body), !.apiKey = env[EnvNames[1]]]
       IN  h' = [h EXCEPT ![r] =
             IF h[r].method = "OPTIONS" THEN Finish(h[r], End(200))
             ELSE IF h[r].method = "GET"
               THEN Finish(h[r], Plain(200, "absent", "absent"))
             ELSE IF P0_Gate(h[r].method)
               THEN Finish(h[r], Plain(405, "absent", "Use POST"))
             ELSE IF body.t = "throws"
               THEN Finish([h[r] EXCEPT !.apiKey = env[EnvNames[1]]],
                           Plain(500, "absent", "Server exception"))
             ELSE IF NoUsableKey(q.apiKey)
               THEN Finish(q, Plain(500, "absent",
                      "Missing or invalid GOOGLE_API_KEY on Vercel"))
             ELSE Await(q, GenCall(FALSE), "gen1")]
  /\ UNCHANGED <<env, fx>>

\* lines 61-109: the call settles; the upstream status is passed on, text
\* that is not JSON and exceptions are answered with 500
P0_GenDone(r) ==
  /\ h[r].variant = "p0" /\ h[r].pc = "gen1"
  /\ \E reply \in G1_Replies :
       LET q == Settle(h[r], reply)
       IN  h' = [h EXCEPT ![r] =
             IF reply.kind = "reject"
               THEN Finish(q, Plain(500, "absent", "Server exception"))
             ELSE IF ~Ok2xx(reply.status)
               THEN Finish(q, Plain(reply.status, "number", "Gemini error"))
             ELSE IF reply.parse = "bad"
               THEN Finish(q, Plain(500, "absent", "Gemini returned non-JSON"))
             ELSE Finish(q, Json(200, "absent", P0_Data(reply.ai), NoDebug))]
  /\ UNCHANGED <<env, fx>>

P0_Next(r) == P0_Start(r) \/ P0_GenDone(r)

-----------------------------------------------------------------------------
(* Spec: one request to a generation endpoint *)

Requests == {1}

\* "p2": handler of part_002; "g1": first handler of api/generate.js;
\* "p3": first handler of part_003; "p1": handler of part_001;
\* "g2": second handler of api/generate.js; "p0": handler of part_000
Variants == {"p2", "g1", "p3", "p1", "g2", "p0"}

Init ==
  /\ env \in Envs
  /\ fx = NoFx
  /\ h \in {[r \in Requests |-> NewRequest(v, m, s)] :
              v \in Variants, m \in HttpMethods, s \in Streams}

Next ==
  \E r \in Requests :
    P2_Next(r) \/ G1_Next(r) \/ P3_Next(r) \/ P1_Next(r) \/ G2_Next(r) \/ P0_Next(r)

Spec == Init /\ [][Next]_vars

-----------------------------------------------------------------------------
(* Properties of the part_002 handler *)

P2Post(r) == h[r].variant = "p2" /\ h[r].method = "POST"
Done(r) == h[r].pc = "done"

Credential(r) ==
  IF h[r].variant = "g1" THEN env[EnvNames[1]] ELSE ApiKeyOf(env)

Post(r) == h[r].method = "POST"

\* The credential is missing or shorter than 10 characters
MissingOrShort(r) ==
  LET c == Credential(r) IN
    IF c.t = "str" THEN StrLen(c.s) < 10 ELSE TRUE

C3_MinimumShape ==
  \A r \in Requests : (P2Post(r) /\ Done(r) /\ h[r].response.sent) =>
    /\ \A f \in ResearchFields : h[r].response.research[f] # <<>>
    /\ h[r].response.concepts # <<>>
    /\ \A i \in 1..Len(h[r].response.concepts) :
         h[r].response.concepts[i].definition # <<>>

\* the first attempt decoded and coerceOutput returned ok = false
FirstJudgedInvalid(r) ==
  /\ Len(h[r].tries) >= 1
  /\ h[r].tries[1].decoded
  /\ ~h[r].tries[1].coerced.threw
  /\ ~h[r].tries[1].coerced.ok

RECURSIVE CountCalls(_, _)
CountCalls(calls, c) ==
  IF calls = <<>> THEN 0
  ELSE (IF calls[1] = c THEN 1 ELSE 0) + CountCalls(Tail(calls), c)

\* C4: in the part_002 handler the strict generateContent call is issued if
\* and only if the first call decoded and coerceOutput judged its content
\* invalid; it is issued at most once, after the non-strict call; when it
\* decodes, its coerced result is the response, valid or not; there is never
\* a third generation call.
C4_RetryOnce ==
  \A r \in Requests : P2Post(r) =>
    /\ (CountCalls(h[r].calls, GenCall(TRUE)) >= 1) <=> FirstJudgedInvalid(r)
    /\ CountCalls(h[r].calls, GenCall(TRUE)) <= 1
    /\ CountCalls(h[r].calls, GenCall(FALSE)) <= 1
    /\ (Len(h[r].tries) = 2 /\ h[r].tries[2].decoded
          /\ ~h[r].tries[2].coerced.threw) =>
         /\ Done(r)
         /\ h[r].response.research = h[r].tries[2].coerced.out.research
         /\ h[r].response.concepts = h[r].tries[2].coerced.out.concepts
         /\ h[r].response.status =
              IF h[r].tries[2].coerced.ok THEN "ok" ELSE "fallback"
    /\ (Len(h[r].tries) = 2) => Done(r)

\* Both attempts decoded and failed validation; the second result was sent
C4_Witness ==
  \E r \in Requests :
    /\ P2Post(r) /\ Done(r) /\ Len(h[r].tries) = 2
    /\ h[r].tries[2].decoded /\ ~h[r].tries[2].coerced.threw
    /\ ~h[r].tries[2].coerced.ok
    /\ h[r].calls = <<ListCall, GenCall(FALSE), GenCall(TRUE)>>
    /\ h[r].response.debug.validated = "false"

CallOrder == <<ListCall, GenCall(FALSE), GenCall(TRUE)>>

\* C5: a request to the part_002 handler issues at most three outbound
\* calls, in the order list-models, generate, strict generate; at most one is
\* in flight at any time, each is issued only after the one before it has
\* settled, and a generate call is issued only after the listing call has
\* succeeded and a model has been picked.
C5_SequentialCalls ==
  \A r \in Requests : h[r].variant = "p2" =>
    /\ Len(h[r].calls) <= 3
    /\ h[r].calls = SubSeq(CallOrder, 1, Len(h[r].calls))
    /\ h[r].inflight \in {0, 1}
    /\ Len(h[r].replies) = Len(h[r].calls) - h[r].inflight
    /\ Len(h[r].calls) >= 2 =>
         /\ ~PickModel(h[r].replies[1]).threw
         /\ h[r].pickedModel # <<>>

\* The strict retry in flight after the two earlier calls have settled
C5_Witness ==
  \E r \in Requests :
    /\ h[r].variant = "p2" /\ h[r].pc = "gen2"
    /\ Len(h[r].calls) = 3 /\ h[r].inflight = 1 /\ Len(h[r].replies) = 2

\* the listing call was rejected, answered with a non-2xx status, or
\* answered with text that is not JSON
ListingFailed(reply) ==
  reply.kind = "reject" \/ ~Ok2xx(reply.status) \/ ~reply.parsable

\* C6: with a credential of plausible length and a failing listing step,
\* the part_002 handler answers with status "fallback" and debug.step
\* "listModels", and issues no generateContent call.
C6_ListingFallback ==
  \A r \in Requests :
    (P2Post(r) /\ Len(h[r].replies) >= 1 /\ ListingFailed(h[r].replies[1])) =>
      /\ Done(r)
      /\ h[r].response.sent /\ h[r].response.http = 200
      /\ h[r].response.status = "fallback"
      /\ h[r].response.debug.step = "listModels"
      /\ h[r].calls = <<ListCall>>

\* A listing answered with 200 and text that is not JSON
C6_Witness ==
  \E r \in Requests :
    /\ P2Post(r) /\ Done(r) /\ Len(h[r].replies) = 1
    /\ h[r].replies[1].kind = "http" /\ Ok2xx(h[r].replies[1].status)
    /\ ~h[r].replies[1].parsable
    /\ ~MissingOrShort(r)
    /\ h[r].response.debug.step = "listModels"

\* the listing succeeded and lists no model that supports generateContent
NoneSupports(reply) ==
  /\ ~ListingFailed(reply)
  /\ \A i \in 1..Len(reply.models) : ~supports(reply.models[i])

\* C7: when model selection fails in the part_002 handler, debug.step tells
\* the stage: "listModels" for a failed listing call, the distinct
\* "pickModel" for a listing without a generateContent model; in both cases
\* the handler stops with fallback content and raises no error.
C7_StageReported ==
  \A r \in Requests : (P2Post(r) /\ Len(h[r].replies) >= 1) =>
    /\ ListingFailed(h[r].replies[1]) =>
         /\ Done(r) /\ h[r].response.status = "fallback"
         /\ h[r].response.debug.step = "listModels"
    /\ NoneSupports(h[r].replies[1]) =>
         /\ Done(r) /\ h[r].response.status = "fallback" /\ ~h[r].escaped
         /\ h[r].response.debug.step = "pickModel"

-----------------------------------------------------------------------------
(* Properties of the concept list across the variants *)

\* the content the provider sent in the last settled generation call, or
\* "none" when that call failed or did not decode to content
ProviderContent(r) ==
  LET q == h[r]
      reply == q.replies[Len(q.replies)]
      nothing == [t |-> "none"]
  IN  IF q.replies = <<>> \/ reply.kind # "http" \/ ~Ok2xx(reply.status)
        THEN nothing
      ELSE IF q.variant = "p2"
        THEN (IF Len(q.replies) < 2 \/ geminiGenerate(reply).threw THEN nothing
              ELSE geminiGenerate(reply).ai)
      ELSE IF q.variant = "p3"
        THEN (IF Len(q.replies) < 2 \/ ~reply.parsable
                 \/ P3_Text(reply).t # "str" \/ ~P3_Text(reply).json
              THEN nothing ELSE P3_Text(reply).ai)
      ELSE IF reply.parse = "bad" THEN nothing ELSE reply.ai

\* the provider's concept list (empty when there is none)
ProviderItems(r) ==
  LET ai == ProviderContent(r)
  IN  IF ai.t = "obj" /\ ai.concepts.t = "arr" THEN ai.concepts.items ELSE <<>>

\* the configured maximum of a variant
ConceptCap(v) == IF v = "p2" THEN 4 ELSE 3

\* a provider entry as the variant v sends it on
KeptEntry(v, c) ==
  LET text(f) == JsString(IF c.t = "obj" /\ c[f].t # "undef" THEN c[f]
                          ELSE Str(<<>>))
      clean(x) == IF v = "g1" THEN x ELSE Trim(x)
  IN  [term |-> Slice(clean(text("term")), IF v = "g1" THEN 120 ELSE 160),
       definition |-> Slice(clean(text("definition")),
                            CASE v = "p2" -> 1000 [] v = "p3" -> 900
                              [] OTHER -> 800)]

\* the fixed lists a response carries when it does not carry provider entries
FixedLists == {<<>>, DefaultConcepts, G1_MockBody(IsoDate).concepts}

CappedVariants == {"p2", "p3", "g1"}

\* C14: the concept list of a response never has more entries than the
\* variant's maximum (4 in part_002, 3 in part_003 and api/generate.js),
\* however many the provider returns, and the entries kept from the provider
\* are its first entries, in their original order.
C14_ConceptCap ==
  \A r \in Requests :
    (h[r].variant \in CappedVariants /\ Post(r) /\ Done(r)
       /\ h[r].response.sent) =>
      LET got == h[r].response.concepts
          cap == ConceptCap(h[r].variant)
      IN  /\ Len(got) <= cap
          /\ \/ got \in FixedLists
             \/ /\ Len(got) = Min(Len(ProviderItems(r)), cap)
                /\ \A i \in 1..Len(got) :
                     got[i] = KeptEntry(h[r].variant, ProviderItems(r)[i])

\* The provider sent five different cards; the part_002 response carries the
\* first four of them
C14_Witness ==
  \E r \in Requests :
    /\ P2Post(r) /\ Done(r) /\ h[r].response.sent
    /\ Len(ProviderItems(r)) = 5
    /\ Len(h[r].response.concepts) = 4
    /\ \A i \in 1..4 : h[r].response.concepts[i].term = P(i)

-----------------------------------------------------------------------------
(* Properties of model selection *)

\* the listed models of a listing reply that parsed
Listed(reply) == IF reply.hasArray THEN reply.models ELSE <<>>

\* C15: model selection in the part_002 handler is deterministic and
\* preference-ordered: the picked model is a listed model that supports
\* generateContent; it is the first listed model that does so and matches
\* the preferred name pattern when there is one, otherwise the first listed
\* model that does so; selection fails only when no listed model supports
\* generateContent.
C15_PreferenceOrdered ==
  \A r \in Requests :
    (P2Post(r) /\ Len(h[r].replies) >= 1 /\ ~ListingFailed(h[r].replies[1])) =>
      LET capable == SelectSeq(Listed(h[r].replies[1]), supports)
          favoured == SelectSeq(capable, PreferredAndSupported)
          first == IF favoured # <<>> THEN favoured[1] ELSE capable[1]
      IN  IF capable = <<>>
          THEN Len(h[r].calls) = 1 /\ h[r].response.status = "fallback"
          ELSE /\ Len(h[r].calls) >= 2
               /\ first.name.t = "str"
               /\ h[r].pickedModel = StripModelsPrefix(first.name.toks)

-----------------------------------------------------------------------------
(* Properties of the diagnostics of a failed generation attempt (part_002) *)

\* the last settled call of r was a generation call and it failed: rejected,
\* non-2xx, envelope not JSON, no text, or inner text not JSON
GenerationFailed(r) ==
  /\ Len(h[r].replies) >= 2
  /\ LET reply == h[r].replies[Len(h[r].replies)]
     IN  \/ reply.kind = "reject"
         \/ ~Ok2xx(reply.status)
         \/ ~reply.parsable
         \/ ProviderContent(r) = [t |-> "none"]

\* the upstream text a failed attempt could quote: the body text for a
\* non-2xx status or an envelope that is not JSON, else the cleaned inner text
OffendingText(r) ==
  LET reply == h[r].replies[Len(h[r].replies)]
  IN  IF reply.kind = "reject" THEN <<>>
      ELSE IF ~Ok2xx(reply.status) \/ ~reply.parsable THEN reply.raw
      ELSE IF FirstParts(reply).t = "num" THEN <<>>
      ELSE P(FirstText(FirstParts(reply)).len)

UpstreamStatus(r) ==
  LET reply == h[r].replies[Len(h[r].replies)]
  IN  IF reply.kind = "http" /\ ~Ok2xx(reply.status) THEN reply.status ELSE 0

-----------------------------------------------------------------------------
(* Properties of the text extraction (part_002 and part_003) *)

\* r was answered with the no-text failure / the parse-inner failure
NoTextReported(r) ==
  /\ Done(r) /\ h[r].response.sent /\ h[r].response.status = "fallback"
  /\ IF h[r].variant = "p2"
     THEN h[r].response.debug.error.msg = "Error: no-text"
     ELSE h[r].response.debug.step = "no-text"

ParseInnerReported(r) ==
  /\ Done(r) /\ h[r].response.sent /\ h[r].response.status = "fallback"
  /\ IF h[r].variant = "p2"
     THEN h[r].response.debug.error.msg = "Error: parse-inner"
     ELSE h[r].response.debug.step = "parse-inner"

\* a content part whose text is a string that is not blank
NonBlankText(p) == p.t = "str" /\ ~p.blank

\* the last settled call of r is a generation call answered 2xx with an
\* envelope that is JSON and whose first candidate has parts in an array, or
\* no parts at all
EnvelopeRead(r) ==
  /\ h[r].variant \in {"p2", "p3"} /\ Post(r)
  /\ Len(h[r].replies) >= 2
  /\ LET reply == h[r].replies[Len(h[r].replies)]
     IN  /\ reply.kind = "http" /\ Ok2xx(reply.status) /\ reply.parsable
         /\ reply.candidates # <<>> => reply.candidates[1].t # "num"

PartsRead(r) ==
  LET reply == h[r].replies[Len(h[r].replies)]
  IN  IF reply.candidates = <<>> THEN <<>> ELSE reply.candidates[1].items

\* C17: the decoder takes the generated text from the first candidate, from
\* the first content part, in order, whose text is a non-blank string: the
\* text of that part is what is parsed; when the first candidate has no such
\* part (no candidates, no parts, only parts with missing, non-string or
\* blank text) decoding fails with the no-text error and the answer has
\* status "fallback".
C17_FirstTextPart ==
  \A r \in Requests : EnvelopeRead(r) =>
    LET with == SelectSeq(PartsRead(r), NonBlankText)
    IN  IF with = <<>> THEN NoTextReported(r)
        ELSE /\ ~NoTextReported(r)
             /\ IF with[1].json
                THEN ~ParseInnerReported(r) /\ ProviderContent(r) = with[1].ai
                ELSE ParseInnerReported(r)

-----------------------------------------------------------------------------
(* Properties of the part_001 handler *)

\* C18: in the part_001 handler no internal error surfaces: every POST
\* request, whatever the provider replies (a 2xx generateContent body that
\* is still not JSON after the fences are cleaned off included), ends with an
\* HTTP 200 response that carries a status field, and no exception escapes
\* the handler.
C18_NeverSurfaces ==
  \A r \in Requests : (h[r].variant = "p1" /\ Post(r)) =>
    /\ ~h[r].escaped
    /\ Done(r) => /\ h[r].response.sent /\ h[r].response.http = 200
                  /\ h[r].response.status \in {"ok", "mock", "fallback"}

-----------------------------------------------------------------------------
(* Properties of the handlers of src/api/generate.js *)

\* the live call of r failed: rejected, non-2xx, or a body that is not JSON
\* even after the fences are cleaned off
UpstreamFailed(r) ==
  /\ Len(h[r].replies) = 1
  /\ \/ h[r].replies[1].kind = "reject"
     \/ ~Ok2xx(h[r].replies[1].status)
     \/ h[r].replies[1].parse = "bad"

-----------------------------------------------------------------------------
(* The mock scenario of the part_002 handler *)

RECURSIVE Chars(_)
\* the characters of a string, one class name per character
Chars(s) ==
  IF s = <<>> THEN <<>>
  ELSE [i \in 1..s[1].n |-> s[1].c] \o Chars(Tail(s))

\* t occurs in s
Contains(s, t) ==
  LET cs == Chars(s)
      ct == Chars(t)
  IN  \E i \in 0..(Len(cs) - Len(ct)) : SubSeq(cs, i + 1, i + Len(ct)) = ct

\* the request body of r is a JSON object with a non-empty date
CarriesDate(r) ==
  /\ h[r].stream.kind = "json"
  /\ h[r].stream.value.t = "obj"
  /\ h[r].stream.value.date.t # "undef"
  /\ h[r].stream.value.date # Str(<<>>)

SentDate(r) == JsString(h[r].stream.value.date)

\* C20: a POST to the part_002 handler whose body carries a non-empty date D,
\* handled with no credential configured, is answered with status "mock",
\* a research.title that contains D verbatim and at least 3 concepts.
C20_MockScenario ==
  \A r \in Requests :
    (P2Post(r) /\ Done(r) /\ CarriesDate(r) /\ ~Truthy(Credential(r))) =>
      /\ h[r].response.sent /\ h[r].response.http = 200
      /\ h[r].response.status = "mock"
      /\ Contains(h[r].response.research.title, SentDate(r))
      /\ Len(h[r].response.concepts) >= 3

\* The scenario itself: a ten-character date, no variable set
C20_Witness ==
  \E r \in Requests :
    /\ P2Post(r) /\ Done(r) /\ CarriesDate(r)
    /\ \A n \in DOMAIN env : env[n] = Undef
    /\ StrLen(SentDate(r)) = 10
    /\ h[r].response.status = "mock"
    /\ StrLen(h[r].response.research.title) = 24

-----------------------------------------------------------------------------
(* The body reader of the part_002 handler *)

\* the body of r has been read: the handler is past its await of readJsonBody
BodyRead(r) == h[r].pc \notin {"start", "readBody"}

\* the JSON value the stream of r carries is an object whose field f is truthy
Carries(r, f) ==
  /\ h[r].stream.kind = "json"
  /\ h[r].stream.value.t = "obj"
  /\ h[r].stream.value[f].t \in {"str", "num"}
  /\ h[r].stream.value[f] # Str(<<>>)

\* C21: in the part_002 handler, once the body stream has ended the request
\* goes on whatever the stream carried: no exception leaves the handler, an
\* empty or malformed body gives the default date and the user "anon", a
\* JSON object gives its own date and userId where they are truthy, and the
\* request ends with a 200 response of status "ok", "mock" or "fallback";
\* the title of the mock and of a failure fallback carries that date.
C21_BodyNeverFails ==
  \A r \in Requests : (P2Post(r) /\ BodyRead(r)) =>
    /\ StreamEnds(h[r].stream)
    /\ ~h[r].escaped
    /\ h[r].date = (IF Carries(r, "date") THEN h[r].stream.value.date
                    ELSE Str(Run("d", 10)))
    /\ h[r].userId = (IF Carries(r, "userId") THEN h[r].stream.value.userId
                      ELSE Str(Words(<<4>>)))
    /\ Done(r) =>
         /\ h[r].response.sent /\ h[r].response.http = 200
         /\ h[r].response.status \in {"ok", "mock", "fallback"}
         /\ (h[r].response.status = "mock"
               \/ h[r].response.debug.step # "absent") =>
              Contains(h[r].response.research.title, JsString(h[r].date))

\* A malformed body answered with generated content
C21_Witness ==
  \E r \in Requests :
    /\ P2Post(r) /\ Done(r)
    /\ h[r].stream.kind = "malformed"
    /\ h[r].date = Str(Run("d", 10))
    /\ h[r].response.status = "ok"
    /\ Len(h[r].calls) = 2

-----------------------------------------------------------------------------
(* Method gating of the part_002 and part_000 handlers *)

Gated(r) == h[r].variant \in {"p2", "p0"} /\ h[r].method # "POST"

\* nothing of the pipeline has happened for r: the body was not read and no
\* provider call was issued
PipelineUntouched(r) ==
  /\ h[r].pc \in {"start", "done"}
  /\ h[r].date = Undef /\ h[r].userId = Undef
  /\ h[r].calls = <<>> /\ h[r].inflight = 0 /\ h[r].replies = <<>>
  /\ h[r].tries = <<>> /\ h[r].pickedModel = <<>>

\* the answers to OPTIONS and GET, and the untouched pipeline, that both
\* handlers give
GatedEarly(r) ==
  /\ PipelineUntouched(r)
  /\ ~h[r].escaped
  /\ (Done(r) /\ h[r].method = "OPTIONS") =>
       /\ h[r].response = [sent |-> TRUE, http |-> 200, kind |-> "end"]
       /\ h[r].apiKey = Undef /\ h[r].keyName = "null"
  /\ (Done(r) /\ h[r].method = "GET") =>
       /\ h[r].response.http = 200 /\ h[r].response.kind = "plain"
       /\ h[r].response.status = "absent" /\ h[r].response.error = "absent"

\* C22 as stated: in both handlers OPTIONS gets an empty 200 before anything
\* is touched, GET gets only diagnostics, and any other method that is not
\* POST gets a 200 body with status "error" and an error field; the pipeline
\* is untouched on all of these paths.
C22_SoftenedEverywhere ==
  \A r \in Requests : Gated(r) =>
    /\ GatedEarly(r)
    /\ (Done(r) /\ h[r].method \notin {"OPTIONS", "GET"}) =>
         /\ h[r].response.http = 200
         /\ h[r].response.status = "error"
         /\ h[r].response.error = "Use POST"

\* C22 amended: as above, except that the answer to a method other than
\* OPTIONS, GET and POST is the 200 body with status "error" in part_002 and
\* a 405 body with an error field and no status in part_000.
C22_MethodGate ==
  \A r \in Requests : Gated(r) =>
    /\ GatedEarly(r)
    /\ (Done(r) /\ h[r].method \notin {"OPTIONS", "GET"}) =>
         /\ h[r].response.kind = "plain"
         /\ h[r].response.error = "Use POST"
         /\ h[r].variant = "p2" =>
              h[r].response.http = 200 /\ h[r].response.status = "error"
         /\ h[r].variant = "p0" =>
              h[r].response.http = 405 /\ h[r].response.status = "absent"

\* A PUT answered by part_000 with 405 while a key is configured and a body
\* is waiting
C22_Witness ==
  \E r \in Requests :
    /\ h[r].variant = "p0" /\ h[r].method = "PUT" /\ Done(r)
    /\ h[r].response.http = 405
    /\ h[r].stream.kind = "json"
    /\ Truthy(env["GOOGLE_API_KEY"])

-----------------------------------------------------------------------------
(* Credential resolution of the part_002 handler *)

\* the variable names in the order the claim gives them
CredentialOrder ==
  <<"GOOGLE_API_KEY", "GEMINI_API_KEY", "GOOGLE_GENAI_API_KEY",
    "GOOGLE_GENERATIVE_AI_API_KEY">>

\* positions of the variables that are set to a non-empty value
NonEmptyAt ==
  {i \in 1..Len(CredentialOrder) :
     /\ env[CredentialOrder[i]].t = "str"
     /\ env[CredentialOrder[i]].s # <<>>}

\* C23: in the part_002 handler the credential of a POST is the value of the
\* first non-empty variable among GOOGLE_API_KEY, GEMINI_API_KEY,
\* GOOGLE_GENAI_API_KEY, GOOGLE_GENERATIVE_AI_API_KEY, the key name it
\* reports is the name of that same variable, and when none is set the
\* request is answered with the mock, key name null.
C23_FirstNonEmptyWins ==
  \A r \in Requests : (P2Post(r) /\ h[r].pc # "start") =>
    /\ NonEmptyAt = {} =>
         /\ ~Truthy(h[r].apiKey)
         /\ h[r].keyName = "null"
         /\ h[r].calls = <<>>
         /\ Done(r) => /\ h[r].response.status = "mock"
                       /\ h[r].response.debug.keyName = "null"
    /\ \A i \in NonEmptyAt : (\A j \in NonEmptyAt : i <= j) =>
         /\ h[r].apiKey = env[CredentialOrder[i]]
         /\ h[r].keyName = CredentialOrder[i]
         /\ Done(r) =>
              h[r].response.debug.keyName \in {CredentialOrder[i], "absent"}

\* An empty first variable is passed over: the key and the reported name are
\* those of the second, and the content is generated with it
C23_Witness ==
  \E r \in Requests :
    /\ P2Post(r) /\ Done(r)
    /\ env["GOOGLE_API_KEY"] = Str(<<>>)
    /\ 2 \in NonEmptyAt
    /\ h[r].response.status = "ok"
    /\ h[r].response.debug.keyName = "GEMINI_API_KEY"

-----------------------------------------------------------------------------
(* The page of src/script.js: loadDataForDate, saveJournal and the store.   *)
(* In this specification fx holds the page, the document store and the     *)
(* asynchronous operations in progress.  Generated content is named by the *)
(* number of the load that generated it, content stored earlier by 0.      *)

\* Most calls of loadDataForDate in one behaviour
MaxLoads == 3

FrontDates == {"d1", "d2"}
Today == "d1"

NoContent == -1
NoDoc ==
  [exists |-> FALSE, research |-> NoContent, concepts |-> NoContent,
   journal |-> ""]
Doc(research, concepts, journal) ==
  [exists |-> TRUE, research |-> research, concepts |-> concepts,
   journal |-> journal]

\* lines 178-184
showLoadingState(page) ==
  [page EXCEPT !.state = "loading", !.research = NoContent,
               !.concepts = NoContent, !.journal = "", !.of = "none"]

\* lines 186-190: the journal box is left as it is
showErrorState(page) ==
  [page EXCEPT !.state = "error", !.research = NoContent,
               !.concepts = NoContent]

\* displayResearch, displayConcepts, displayJournal (lines 147-168) of the
\* record `data` of date d; displayResearch throws on a missing research,
\* which the catch of line 90 turns into the error state
display(page, data, d) ==
  IF data.research = NoContent THEN showErrorState(page)
  ELSE [state |-> "shown", research |-> data.research,
        concepts |-> data.concepts, journal |-> data.journal, of |-> d]

\* Promise.all as it would be if it waited for both calls and fulfilled
\* whatever their outcomes
PromiseAllSettled(a, b) ==
  IF "pending" \in {a, b} THEN "pending" ELSE "fulfilled"

\* Promise.all of the two generation calls (lines 72-75)
PromiseAll(a, b) ==
  IF "fail" \in {a, b} THEN "rejected"
  ELSE IF "pending" \in {a, b} THEN "pending"
  ELSE "fulfilled"

\* A call of loadDataForDate(d) at its first await (lines 57-63)
NewLoad(d) ==
  [date |-> d, pc |-> "read", found |-> "pending", research |-> "pending",
   concepts |-> "pending", calls |-> 0, wrote |-> FALSE, existed |-> FALSE,
   outcome |-> "pending", shown |-> NoDoc]

\* lines 77-81
NewData(l) ==
  Doc(IF fx.loads[l].research = "ok" THEN l ELSE NoContent,
      IF fx.loads[l].concepts = "ok" THEN l ELSE NoContent, "")

\* the load l ends by showing `data`, or the error state
Shows(l, data) ==
  LET page == display(fx.page, data, fx.loads[l].date)
  IN  [fx EXCEPT !.page = page,
         !.loads[l].pc = "done",
         !.loads[l].outcome = IF page.state = "shown" THEN "shown" ELSE "error",
         !.loads[l].shown = IF page.state = "shown" THEN data ELSE NoDoc]

\* the load l ends in the catch of line 90; what the two generation calls
\* returned is dropped with the call's frame
Fails(l) ==
  [fx EXCEPT !.page = showErrorState(fx.page), !.loads[l].pc = "done",
             !.loads[l].outcome = "error",
             !.loads[l].research = "pending", !.loads[l].concepts = "pending"]

\* saveJournal is not running: the save button is enabled
NoSave == [pc |-> "idle", date |-> "none", text |-> "", shownOf |-> "none"]

\* the state after the DOMContentLoaded handler (lines 27-48): today's date
\* is selected and its load has started; a stored record is a whole record
InitFront ==
  /\ env = NoEnv /\ h = NoRequests
  /\ \E store \in [FrontDates -> {NoDoc, Doc(0, 0, "j0")}] :
       fx = [stage |-> "front", currentDate |-> Today, store |-> store,
             loads |-> <<NewLoad(Today)>>, save |-> NoSave,
             page |-> showLoadingState(
                [state |-> "loading", research |-> NoContent,
                 concepts |-> NoContent, journal |-> "", of |-> "none"])]

\* the 'change' listener (lines 43-46)
SelectDate ==
  /\ Len(fx.loads) < MaxLoads
  /\ \E d \in FrontDates \ {fx.currentDate} :
       fx' = [fx EXCEPT !.currentDate = d,
                !.page = showLoadingState(fx.page),
                !.loads = Append(@, NewLoad(d))]
  /\ UNCHANGED <<env, h>>

\* getDoc settles (lines 63-75): the stored record is shown, or both
\* generation calls are issued, or the read fails
ReadDone ==
  /\ \E l \in 1..Len(fx.loads), ok \in BOOLEAN :
       /\ fx.loads[l].pc = "read"
       /\ LET doc == fx.store[fx.loads[l].date]
          IN  fx' =
                IF ~ok THEN [Fails(l) EXCEPT !.loads[l].found = "failed"]
                ELSE IF doc.exists
                  THEN [Shows(l, doc) EXCEPT !.loads[l].found = "yes"]
                ELSE [fx EXCEPT !.loads[l].found = "no", !.loads[l].pc = "gen",
                                !.loads[l].calls = 2]
  /\ UNCHANGED <<env, h>>

\* one of the two generation calls settles (lines 120-142); when both have
\* succeeded setDoc is called (line 83)
GenSettle ==
  /\ \E l \in 1..Len(fx.loads), which \in {"research", "concepts"},
        r \in {"ok", "fail"} :
       /\ fx.loads[l].pc = "gen"
       /\ fx.loads[l][which] = "pending"
       /\ LET g == [fx EXCEPT !.loads[l][which] = r]
              all == PromiseAll(g.loads[l].research, g.loads[l].concepts)
          IN  fx' =
                IF all = "rejected" THEN Fails(l)
                ELSE IF all = "fulfilled" THEN [g EXCEPT !.loads[l].pc = "write"]
                ELSE g
  /\ UNCHANGED <<env, h>>

\* setDoc settles (lines 83-92): the whole record is stored under the date
\* and shown, or the write fails
WriteDone ==
  /\ \E l \in 1..Len(fx.loads), ok \in BOOLEAN :
       /\ fx.loads[l].pc = "write"
       /\ LET d == fx.loads[l].date
              s == Shows(l, NewData(l))
          IN  fx' =
                IF ~ok THEN Fails(l)
                ELSE [s EXCEPT !.store[d] = NewData(l),
                        !.loads[l].wrote = TRUE,
                        !.loads[l].existed = fx.store[d].exists]
  /\ UNCHANGED <<env, h>>

\* the user types into the journal box
TypeJournal ==
  /\ fx.page.journal # "t1"
  /\ fx' = [fx EXCEPT !.page.journal = "t1"]
  /\ UNCHANGED <<env, h>>

\* saveJournal up to its await (lines 96-105); the button is disabled while
\* the save is pending
SaveStart ==
  /\ fx.save.pc # "pending"
  /\ fx' = [fx EXCEPT !.save =
              [pc |-> "pending", date |-> fx.currentDate,
               text |-> fx.page.journal, shownOf |-> fx.page.of]]
  /\ UNCHANGED <<env, h>>

\* updateDoc settles (lines 105-115); it rejects when the record is missing
SaveDone ==
  /\ fx.save.pc = "pending"
  /\ \E ok \in BOOLEAN :
       LET d == fx.save.date
       IN  fx' =
             IF ok /\ fx.store[d].exists
               THEN [fx EXCEPT !.store[d].journal = fx.save.text,
                               !.save.pc = "saved"]
             ELSE [fx EXCEPT !.save.pc = "failed"]
  /\ UNCHANGED <<env, h>>

NextFront ==
  SelectDate \/ ReadDone \/ GenSettle \/ WriteDone \/ TypeJournal
    \/ SaveStart \/ SaveDone

SpecFront == InitFront /\ [][NextFront]_vars

-----------------------------------------------------------------------------
(* Properties of loadDataForDate and saveJournal *)

Loads == 1..Len(fx.loads)

\* C24: a call of loadDataForDate(d) that finds a record when it reads shows
\* the stored research, concepts and journal, issues no provider call and
\* writes nothing; one that finds none issues both generation calls and,
\* only if both succeed, writes one record {research, concepts, journal ''}
\* of what they returned and shows it; if the read, a generation call or the
\* write fails it ends in the error state having written nothing, and the
\* store never holds a record without research or concepts.
C24_ReadElseGenerateAndWrite ==
  /\ \A d \in FrontDates : fx.store[d].exists =>
       fx.store[d].research # -1 /\ fx.store[d].concepts # -1
  /\ \A l \in Loads :
       LET L == fx.loads[l] IN
         /\ L.found = "yes" =>
              /\ L.calls = 0 /\ ~L.wrote /\ L.pc = "done"
              /\ L.outcome = "shown" /\ L.shown.exists
         /\ L.found \in {"pending", "failed"} => L.calls = 0 /\ ~L.wrote
         /\ L.found = "no" => L.calls = 2
         /\ L.wrote =>
              /\ L.found = "no"
              /\ L.research = "ok" /\ L.concepts = "ok"
              /\ L.outcome = "shown"
              /\ L.shown = [exists |-> TRUE, research |-> l, concepts |-> l,
                            journal |-> ""]
         /\ (L.pc = "done" /\ L.found # "yes" /\ ~L.wrote) =>
              L.outcome = "error"
         /\ L.outcome = "error" => ~L.wrote
         /\ L.pc = "write" => L.research = "ok" /\ L.concepts = "ok"

\* Three loads: one whose generation failed, one that showed a stored
\* record, one that generated, wrote and showed a new record
C24_Witness ==
  \E a, b, c \in Loads :
    /\ fx.loads[a].found = "no" /\ fx.loads[a].outcome = "error"
    /\ fx.loads[b].found = "yes" /\ fx.loads[b].outcome = "shown"
    /\ fx.loads[c].wrote /\ fx.loads[c].outcome = "shown"
    /\ fx.store[fx.loads[c].date] = fx.loads[c].shown

\* C29: once every load has completed, the research, concepts and journal
\* on the page are those of the record of currentDate, and a completed save
\* has stored text the page showed for the date it was stored under.
C29_ShownIsCurrent ==
  /\ ((\A l \in Loads : fx.loads[l].pc = "done") /\ fx.page.state = "shown") =>
       fx.page.of = fx.currentDate
  /\ fx.save.pc = "saved" => fx.save.shownOf \in {"none", fx.save.date}

\* C30: loadDataForDate writes its whole record, journal '', only when no
\* record exists under the date at the moment of the write, so a stored
\* research, concepts or saved journal is never replaced by a load.
C30_WritesOnlyWhenAbsent ==
  \A l \in Loads : fx.loads[l].wrote => ~fx.loads[l].existed

-----------------------------------------------------------------------------
(* The meaning of status "ok" in part_002 and in the first handler of      *)
(* part_003                                                                *)

\* the provider's content of the last generation call, trimmed and capped,
\* before any default is filled in
Unfilled(r) ==
  IF h[r].variant = "p2" THEN CoerceFields(ProviderContent(r))
  ELSE P3_CoerceFields(ProviderContent(r))

\* C26: in part_002 and in the first handler of part_003 a response has
\* status "ok" only if its content is the provider's own, with no default
\* filled in; in part_002 debug.validated is true exactly when the status is
\* "ok".
C26_OkMeansValidated ==
  \A r \in Requests :
    (h[r].variant \in {"p2", "p3"} /\ Post(r) /\ Done(r) /\ h[r].response.sent) =>
      /\ h[r].response.status = "ok" =>
           /\ ProviderContent(r).t = "obj"
           /\ h[r].response.research = Unfilled(r).research
           /\ h[r].response.concepts = Unfilled(r).concepts
      /\ h[r].variant = "p2" =>
           (h[r].response.debug.validated = "true"
              <=> h[r].response.status = "ok")

-----------------------------------------------------------------------------
(* The failed strict retry of the part_002 handler *)

\* the strict retry was issued and did not yield content that coerceOutput
\* could judge
RetryFailed(r) ==
  /\ Len(h[r].tries) = 2
  /\ ~h[r].tries[2].decoded \/ h[r].tries[2].coerced.threw

\* what coerceOutput({}, date) returns: every field and the card list are the
\* defaults of lines 44-56, the source that of line 25
OnlyDefaults(r) ==
  [research |->
     [title |-> Concat(Words(<<5, 5, 1, 0>>), JsString(h[r].date)),
      introduction |-> Words(<<4, 5, 10, 1, 9, 4, 3, 9, 9, 3, 12, 2, 5, 5>>),
      keyFindings |->
        Words(<<1, 6, 7, 8, 10, 1, 8, 10, 7, 11, 1, 8, 9, 4, 8, 15>>),
      conclusion |-> Words(<<4, 3, 5, 6, 3, 2, 2, 6, 11, 5, 10>>),
      source |-> Words(<<9, 10, 10>>)],
   concepts |->
     << [term |-> Words(<<12>>),
         definition |-> Words(<<1, 7, 6, 11, 5, 5, 8, 11, 5, 7, 6, 7, 9>>)],
        [term |-> Words(<<13>>),
         definition |-> Words(<<9, 2, 8, 4, 7, 8, 10, 8, 4, 5, 8, 9, 3, 8>>)],
        [term |-> Words(<<9, 4>>),
         definition |-> Words(<<3, 4, 7, 6, 2, 2, 4, 8, 2, 8, 7, 3, 15>>)] >>]

\* C28: in the part_002 handler, when the first attempt decodes but fails
\* validation and the strict retry then fails, the response has status
\* "fallback", debug.step "generate", and exactly the content of
\* coerceOutput({}, date): the defaults only, nothing of the first attempt.
C28_RetryFailureFallsBack ==
  \A r \in Requests :
    (P2Post(r) /\ FirstJudgedInvalid(r) /\ RetryFailed(r)) =>
      /\ Done(r) /\ h[r].response.sent /\ h[r].response.http = 200
      /\ h[r].response.status = "fallback"
      /\ h[r].response.debug.step = "generate"
      /\ h[r].response.research = OnlyDefaults(r).research
      /\ h[r].response.concepts = OnlyDefaults(r).concepts

\* A first attempt with valid research and three cards, one with an empty
\* definition, followed by a retry that the provider rejects with 500
C28_Witness ==
  \E r \in Requests :
    /\ P2Post(r) /\ Done(r) /\ FirstJudgedInvalid(r) /\ RetryFailed(r)
    /\ h[r].tries[1].coerced.out.research.title # <<>>
    /\ h[r].tries[1].coerced.out.research.title # h[r].response.research.title
    /\ h[r].replies[3].kind = "http" /\ h[r].replies[3].status = 500
    /\ h[r].response.debug.status = 500

-----------------------------------------------------------------------------
(* Termination of the part_002 handler *)

\* A request to the part_002 handler
InitLive ==
  /\ env \in Envs
  /\ fx = NoFx
  /\ h \in {[r \in Requests |-> NewRequest("p2", m, s)] :
              m \in HttpMethods, s \in Streams}

NextLive == \E r \in Requests : P2_Next(r)

\* Every continuation whose awaited promise has settled is run: a body
\* stream that ends delivers its 'end', every outbound call settles
SpecLive == InitLive /\ [][NextLive]_vars /\ WF_vars(NextLive)

\* C27: every POST to the part_002 handler is eventually answered, whatever
\* the body stream does, provided every outbound call settles.
C27_EveryPostAnswered ==
  \A r \in Requests : P2Post(r) ~> (Done(r) /\ h[r].response.sent)

-----------------------------------------------------------------------------
(* Two requests in flight at the part_002 handler *)

Pair == {1, 2}

\* environments with at most GOOGLE_API_KEY set
PairEnvs ==
  {e \in Envs : \A i \in 2..Len(EnvNames) : e[EnvNames[i]] = Undef}

\* bodies of the first request: none, as the second request's, or a JSON
\* object with a date
PairStreams ==
  {[kind |-> "empty"],
   [kind |-> "json",
    value |-> BodyObj(Str(Concat(Run("d", DateLen), Run("w", 1))), Undef)]}

InitPair ==
  /\ env \in PairEnvs
  /\ fx = NoFx
  /\ h \in {[r \in Pair |-> NewRequest("p2", "POST",
                                IF r = 1 THEN s ELSE [kind |-> "empty"])] :
              s \in PairStreams}

\* the event loop runs one continuation of one request at a time
NextPair == \E r \in Pair : P2_Next(r)

SpecPair == InitPair /\ [][NextPair]_vars

\* C25: two requests in flight at the part_002 handler are independent: a
\* step of one leaves the other and the environment as they are, and two
\* requests with the same body that got the same provider replies are in
\* the same state, response included, however their steps interleaved.
C25_Independent ==
  [][/\ env' = env
     /\ \A r \in Pair : h'[r] # h[r] =>
          \A o \in Pair \ {r} : h'[o] = h[o]
     /\ \A r, o \in Pair :
          (h'[r].stream = h'[o].stream /\ h'[r].replies = h'[o].replies
             /\ h'[r].pc = h'[o].pc) => h'[r] = h'[o]]_vars

\* Both requests are awaiting a provider call, one its strict retry and the
\* other its listing, for different dates
C25_Witness ==
  /\ h[1].pc = "gen2" /\ h[1].inflight = 1
  /\ h[2].pc = "list" /\ h[2].inflight = 1
  /\ h[1].date # h[2].date

-----------------------------------------------------------------------------
(* The fence cleaning and inner parse of geminiGenerate (part_002, 155-168), *)
(* on texts that are sequences of characters.  "sp" is a space, "nl" a line *)
(* feed, "nbsp" a no-break space (white space for trim() and \s, not for   *)
(* JSON), "q" a double quote, "bt" a backtick.                              *)

\* the white space of trim() and \s, and the white space of JSON
IsSpace == {"sp", "nl", "nbsp"}
IsJsonSpace == {"sp", "nl"}

RECURSIVE DropLeading(_, _)
DropLeading(t, set) ==
  IF t # <<>> /\ t[1] \in set THEN DropLeading(Tail(t), set) ELSE t

RECURSIVE DropTrailing(_, _)
DropTrailing(t, set) ==
  IF t # <<>> /\ t[Len(t)] \in set
  THEN DropTrailing(SubSeq(t, 1, Len(t) - 1), set) ELSE t

\* text.trim()
TrimText(t) == DropTrailing(DropLeading(t, IsSpace), IsSpace)

LowerCase(c) ==
  CASE c = "J" -> "j" [] c = "S" -> "s" [] c = "O" -> "o" [] c = "N" -> "n"
    [] OTHER -> c

Fence == <<"bt", "bt", "bt">>

StartsWith(t, pre) == Len(t) >= Len(pre) /\ SubSeq(t, 1, Len(pre)) = pre

\* .replace(/^```json\s*/, '') without the i flag
ReplaceJsonFenceCaseSensitive(t) ==
  IF StartsWith(t, Fence \o <<"j", "s", "o", "n">>)
  THEN DropLeading(SubSeq(t, 8, Len(t)), IsSpace) ELSE t

\* .replace(/^```json\s*/i, '')
ReplaceJsonFence(t) ==
  IF StartsWith([i \in 1..Len(t) |-> LowerCase(t[i])], Fence \o <<"j", "s", "o", "n">>)
  THEN DropLeading(SubSeq(t, 8, Len(t)), IsSpace) ELSE t

\* .replace(/^```\s*/i, '')
ReplaceFence(t) ==
  IF StartsWith(t, Fence) THEN DropLeading(SubSeq(t, 4, Len(t)), IsSpace) ELSE t

\* .replace(/```$/, '')
ReplaceTrailingFence(t) ==
  IF Len(t) >= 3 /\ SubSeq(t, Len(t) - 2, Len(t)) = Fence
  THEN SubSeq(t, 1, Len(t) - 3) ELSE t

\* lines 156-160
CleanFences(text) ==
  TrimText(ReplaceTrailingFence(ReplaceFence(ReplaceJsonFence(TrimText(text)))))

ParseError == [ok |-> FALSE, v |-> <<"error">>]
Parsed(v) == [ok |-> TRUE, v |-> v]

RECURSIVE ParseValue(_)
\* JSON.parse on a text without surrounding white space, for the JSON
\* values this alphabet can spell: numbers 1, 11, ..., strings, {} and
\* arrays of at most one element
ParseValue(t) ==
  IF t = <<>> THEN ParseError
  ELSE IF \A i \in 1..Len(t) : t[i] = "1" THEN Parsed(<<"num", Len(t)>>)
  ELSE IF Len(t) >= 2 /\ t[1] = "q" /\ t[Len(t)] = "q"
          /\ \A i \in 2..(Len(t) - 1) : t[i] \notin {"q", "nl"}
    THEN Parsed(<<"str", SubSeq(t, 2, Len(t) - 1)>>)
  ELSE IF Len(t) >= 2 /\ t[1] = "{" /\ t[Len(t)] = "}"
          /\ \A i \in 2..(Len(t) - 1) : t[i] \in IsJsonSpace
    THEN Parsed(<<"obj">>)
  ELSE IF Len(t) >= 2 /\ t[1] = "[" /\ t[Len(t)] = "]"
    THEN LET inner == DropTrailing(DropLeading(SubSeq(t, 2, Len(t) - 1),
                                                IsJsonSpace), IsJsonSpace)
         IN  IF inner = <<>> THEN Parsed(<<"arr">>)
             ELSE LET e == ParseValue(inner)
                  IN  IF e.ok THEN Parsed(<<"arr", e.v>>) ELSE ParseError
  ELSE ParseError

\* JSON.parse(text)
JsonParse(t) == ParseValue(DropTrailing(DropLeading(t, IsJsonSpace), IsJsonSpace))

\* lines 149-170 for a part text: the no-text error, the parse-inner error
\* or the parsed value
DecodeText(text) ==
  IF TrimText(text) = <<>> THEN [ok |-> FALSE, v |-> <<"no-text">>]
  ELSE JsonParse(CleanFences(text))

\* Longest JSON payload of the model, in characters
MaxPayloadLen == 4

PayloadChars == {"{", "}", "[", "]", "1", "q", "bt", "sp"}
\* every text of at most MaxPayloadLen characters that is valid JSON
Payloads ==
  {t \in UNION {[1..k -> PayloadChars] : k \in 1..MaxPayloadLen} : JsonParse(t).ok}

\* language tags after the opening fence: none, json in three spellings,
\* and two other languages
JsonTags == {<<>>, <<"j", "s", "o", "n">>, <<"J", "S", "O", "N">>,
             <<"J", "s", "o", "n">>}
OtherTags == {<<"j", "s">>, <<"j", "s", "o", "n", "c">>}
Separators == {<<>>, <<"nl">>, <<"sp">>, <<"nbsp", "nl">>}

\* P inside an opening fence with a tag and a closing fence
Wrap(payload, tag, sep, pad) ==
  pad \o Fence \o tag \o sep \o payload \o sep \o Fence \o pad

-----------------------------------------------------------------------------
(* SpecDecode: a payload decoded alone and inside code fences *)

InitDecode ==
  /\ env = NoEnv
  /\ h = NoRequests
  /\ fx \in {[stage |-> "text", payload |-> t, tag |-> tag, sep |-> sep,
              pad |-> pad, alone |-> ParseError, wrapped |-> ParseError,
              did |-> {}] :
               t \in Payloads, tag \in JsonTags \cup OtherTags,
               sep \in Separators, pad \in {<<>>, <<"nl">>}}

DecodeAlone ==
  /\ fx.stage = "text" /\ "alone" \notin fx.did
  /\ fx' = [fx EXCEPT !.alone = DecodeText(fx.payload),
                      !.did = @ \cup {"alone"}]
  /\ UNCHANGED <<env, h>>

DecodeWrapped ==
  /\ fx.stage = "text" /\ "wrapped" \notin fx.did
  /\ fx' = [fx EXCEPT
              !.wrapped = DecodeText(Wrap(fx.payload, fx.tag, fx.sep, fx.pad)),
              !.did = @ \cup {"wrapped"}]
  /\ UNCHANGED <<env, h>>

NextDecode == DecodeAlone \/ DecodeWrapped

SpecDecode == InitDecode /\ [][NextDecode]_vars

BothDecoded == fx.stage = "text" /\ fx.did = {"alone", "wrapped"}

\* C8 as stated: a JSON payload wrapped in a leading code fence with an
\* optional language tag (any tag) and a trailing code fence decodes to the
\* same value as the payload alone.
C8_AnyTag ==
  BothDecoded => (fx.alone.ok /\ fx.wrapped = fx.alone)

\* C8 (amended): a JSON payload wrapped in a leading code fence that carries
\* no language tag or the tag json (in any letter case) and a trailing code
\* fence decodes to the same value as the payload alone.
C8_JsonTag ==
  (BothDecoded /\ fx.tag \in JsonTags) => (fx.alone.ok /\ fx.wrapped = fx.alone)

\* An array payload behind ```JSON with no separator, decoded both ways
C8_Witness ==
  /\ BothDecoded
  /\ fx.tag = <<"J", "S", "O", "N">> /\ fx.sep = <<>>
  /\ fx.payload = <<"[", "1", "]">>
  /\ fx.wrapped = Parsed(<<"arr", <<"num", 1>>>>)

====
